---- MODULE Spec2Model ----
(***************************************************************************)
(* The coupling drivers of cslvr's Model class (src/cslvr/model.py):       *)
(* thermo_solve, the thermo-mechanical fixed point between a Momentum and  *)
(* an Energy solver, assimilate_U_ob, the outer loop around it, L_curve,   *)
(* the sweep over regularization weights, and transient_solve, the time    *)
(* loop with its adaptive back-offs.                                       *)
(*                                                                         *)
(* Fields are vectors over the degrees of freedom Dofs.  Floating-point    *)
(* values are integers on a fixed-point grid; DOLFIN_EPS is the smallest   *)
(* positive value of the grid, np.inf is the value Inf, larger than every  *)
(* residual.  The Momentum and Energy solvers are not part of model.py:    *)
(* a call of one of their methods is a step that writes the fields that    *)
(* method owns with any value of a small set.                              *)
(***************************************************************************)
EXTENDS Integers, Sequences, FiniteSets, TLC

VARIABLES
  \* the Model instance
  out_dir,      \* self.out_dir
  theta,        \* self.theta
  alpha,        \* self.alpha
  Mb,           \* self.Mb
  Fb,           \* self.Fb
  Fb_min,       \* self.Fb_min
  Fb_max,       \* self.Fb_max
  beta,         \* self.beta
  U3,           \* self.U3
  geom,         \* S, B, E, mask, U_mask, U_ob : the read-only inputs
  Tp,           \* self.Tp
  W,            \* self.W
  A_mom,        \* self.A as the last momentum.solve evaluated it
  \* the solver objects and the keyword dictionaries
  transient,    \* energy.transient
  mode,         \* energy.energy_flux_mode
  wop_bounds,   \* wop_kwargs['bounds']
  \* the file system
  files,        \* path |-> lines of a text log
  \* the frame of thermo_solve
  pc,           \* position in thermo_solve ("none": not running)
  atol, rtol, max_iter, starting_i,
  out_dir_i, d_hist, n_i, bounds,
  abs_error, rel_error, counter, U_prev, abs_error_n, tht_nrm,
  \* the Momentum object
  linear,       \* momentum.linear
  linear_s,     \* momentum.linear_s : linear as first configured
  \* the frame of assimilate_U_ob and the tmc_kwargs it is given
  A,
  tmc_kwargs,
  \* observation
  a_steps,      \* the calls made so far in the current outer iteration
  a_iters,      \* the outer iteration numbers executed
  given,        \* the energy flux mode and the bounds the script passed
  steps,        \* the calls made so far in the current iteration
  iters,        \* the iteration numbers executed by the current call
  script,       \* what the calling script is doing
  status,       \* "ok", or the failure that ended the process
  \* the arguments and the frame of L_curve
  physics,      \* the physics object: what was done to it since it was built
  control,      \* the control field
  L,
  l_obs,        \* observation of the sweep
  \* the objects transient_solve works on, and its frame
  tsim,         \* relaxation parameter, self.time_step and self.H
  TS,
  t_obs,        \* observation of the time steps
  \* the classes of the objects the script passes to a driver
  objects,
  i_obs         \* the last call of an init_ method

tmcframe == <<pc, atol, rtol, max_iter, starting_i, out_dir_i, d_hist, n_i,
              bounds, abs_error, rel_error, counter, U_prev, abs_error_n,
              tht_nrm>>
fields   == <<theta, alpha, Mb, Fb, Fb_min, Fb_max, beta, U3, geom, Tp, W,
              A_mom>>
caller   == <<script, linear, linear_s, A, tmc_kwargs, a_steps, a_iters,
              given>>
lcurve   == <<physics, control, L, l_obs>>
timeloop == <<tsim, TS, t_obs>>
passed   == <<objects, i_obs>>
sweep    == <<lcurve, timeloop, passed>>
vars     == <<out_dir, fields, transient, mode, wop_bounds, files, tmcframe,
              steps, iters, caller, status, sweep>>

----------------------------------------------------------------------------
(* Bounds of the model *)

NDofs    == 2
MaxTheta == 2
MaxIter  == 2
MaxTol   == 1
MaxPrior == 2
MaxBeta  == 1
RestartStart   == 3
RestartIter    == 5
MaxRestartBeta == 3
MaxPadIter     == 11
MaxAlphas      == 2
MaxControl     == 2
MaxSpan        == 2
MaxStep        == 2
MaxH           == 1
MaxSlope       == 3
MaxExp         == 2
RelaxDefault   == 1000   \* a relaxation parameter of 1.0, in thousandths

Dofs      == 1..NDofs
ThetaVals == 0..MaxTheta
TolVals   == 0..MaxTol
IterVals  == 1..MaxIter
StartVals == 0..(MaxIter + 1)
AlphaVals == {0, 1}
MbVals    == {0, 1000}
LowerVals == {0, 100}
UpperVals == {500, 5000}
Modes     == {"Fb", "zero_energy"}

(* Program constants *)
rhoi       == 910
rhow       == 1000
g          == 10      \* 9.80665 on the grid
BetaFloor  == 100     \* 1e-2 on the grid of beta
DOLFIN_EPS == 1
Inf        == 1000000
RelaxFloor == 200     \* 0.2, in thousandths
RelaxDiv   == 143     \* 1.43, in hundredths
SpinUp     == 100     \* years
T_switch   == 1       \* 263.15 on the grid
W_cap      == 1       \* 0.01 on the grid
ThetaMelt  == 1       \* the energy of ice at the pressure-melting point

Const(v) == [d \in Dofs |-> v]

\* the objects of a correct script: the momentum and the energy handed to
\* thermo_solve, and the momentum handed to assimilate_U_ob
Proper == [momentum |-> "Momentum", energy |-> "Energy",
           a_momentum |-> "Momentum"]

----------------------------------------------------------------------------
(* Pure helpers *)

RECURSIVE SumSq(_, _)
SumSq(v, n) == IF n = 0 THEN 0 ELSE v[n] * v[n] + SumSq(v, n - 1)

ISqrt(n) == CHOOSE r \in 0..n : r * r <= n /\ (r + 1) * (r + 1) > n

\* norm(v, 'l2'), rounded down to the grid
norm_l2(v) == ISqrt(SumSq(v, NDofs))

\* variant: the sum instead of the difference
Diff_sum(u, v) == [d \in Dofs |-> u[d] + v[d]]

Diff(u, v) == [d \in Dofs |-> u[d] - v[d]]

\* abs(a - b) for residuals, where a may be np.inf
AbsDiff(a, b) ==
  IF a = Inf \/ b = Inf THEN Inf ELSE IF a >= b THEN a - b ELSE b - a

Digit == <<"0", "1", "2", "3", "4", "5", "6", "7", "8", "9">>

\* str(n) for n >= 0
RECURSIVE str(_)
str(n) == IF n < 10 THEN Digit[n + 1] ELSE str(n \div 10) \o Digit[(n % 10) + 1]

RECURSIVE Zeros(_)
Zeros(k) == IF k <= 0 THEN "" ELSE "0" \o Zeros(k - 1)

\* '%0*d' % (w, n)
ZeroPad(w, n) == Zeros(w - Len(str(n))) \o str(n)

RECURSIVE Pow10(_)
Pow10(k) == IF k = 0 THEN 1 ELSE 10 * Pow10(k - 1)

\* '%.1E' % a for a = n / 100 with n >= 1 : a mantissa of two significant
\* digits, rounded to nearest, and a signed exponent of two digits
FmtE1(n) ==
  LET k  == Len(str(n))
      m0 == IF k <= 2 THEN n * Pow10(2 - k)
                      ELSE (n + 5 * Pow10(k - 3)) \div Pow10(k - 2)
      m  == IF m0 = 100 THEN 10 ELSE m0
      e  == (k - 3) + (IF m0 = 100 THEN 1 ELSE 0)
  IN  Digit[(m \div 10) + 1] \o "." \o Digit[(m % 10) + 1] \o "E" \o
      (IF e < 0 THEN "-" ELSE "+") \o ZeroPad(2, IF e < 0 THEN -e ELSE e)

\* np.savetxt(path, lines)
savetxt(fs, path, lines) ==
  [p \in DOMAIN fs \cup {path} |-> IF p = path THEN lines ELSE fs[p]]

----------------------------------------------------------------------------
(* The rate factor *)

\* lines 1766-1773 : A = E*a_T*(1 + 181.25*W_T)*exp(-Q_T/(R*Tp)); the value at
\* a dof is kept as the arguments the expression is evaluated with
RateFactor(tp, w, e) ==
  [d \in Dofs |->
     [E   |-> e[d],
      a_T |-> IF tp[d] < T_switch THEN "a_T_l" ELSE "a_T_u",
      Q_T |-> IF tp[d] < T_switch THEN "Q_T_l" ELSE "Q_T_u",
      W_T |-> IF w[d] < W_cap THEN w[d] ELSE W_cap,
      Tp  |-> tp[d]]]

\* energy.solve partitions the energy theta into the temperature, up to the
\* pressure-melting point, and the water content above it
partition_energy(th) ==
  [Tp |-> [d \in Dofs |-> IF th[d] <= ThetaMelt THEN th[d] ELSE ThetaMelt],
   W  |-> [d \in Dofs |-> IF th[d] <= ThetaMelt THEN 0 ELSE th[d] - ThetaMelt]]

----------------------------------------------------------------------------
(* thermo_solve *)

\* The calls of one iteration, in the order of the source
IterationCalls(md) ==
  << "set_out_dir", "momentum.solve", "energy.calc_T_melt",
     "momentum.calc_q_fric", "energy.calc_basal_temperature_flux",
     "energy.calc_basal_temperature_melting_flux",
     "energy.derive_temperate_zone", "energy.update_thermal_parameters",
     "energy.solve_basal_melt_rate", "init_Fb" >>
  \o (IF md = "Fb" THEN << "init_Fb_max", "energy.optimize_water_flux" >>
                   ELSE << >>)
  \o << "energy.solve" >>

\* a step of thermo_solve that touches the frame only through pc and steps
Goto(from, to, call) ==
  /\ status = "ok"
  /\ pc = from
  /\ pc' = to
  /\ steps' = IF call = "" THEN steps ELSE Append(steps, call)

FrameLocals == <<atol, rtol, max_iter, starting_i, out_dir_i, d_hist, n_i,
                 bounds, abs_error, rel_error, counter, U_prev, abs_error_n,
                 tht_nrm>>

\* lines 2631-2667 : everything before the loop
thermo_locals ==
  /\ status = "ok"
  /\ pc = "enter"
  /\ transient' = FALSE
  /\ out_dir_i' = out_dir
  /\ d_hist' = out_dir \o "tmc/convergence_history/"
  /\ n_i' = Len(str(max_iter))
  /\ IF mode = "Fb"
       THEN /\ bounds' = wop_bounds
            /\ Fb_min' = Const(wop_bounds.lo)
            /\ Fb_max' = Const(wop_bounds.hi)
            /\ wop_bounds' = [kind |-> "fields", lo |-> 0, hi |-> 0]
       ELSE UNCHANGED <<bounds, Fb_min, Fb_max, wop_bounds>>
  /\ abs_error' = Inf
  /\ rel_error' = Inf
  /\ counter' = IF starting_i <= 1 THEN 1 ELSE starting_i
  /\ U_prev' = theta
  /\ pc' = "while"
  /\ steps' = << >>
  /\ iters' = << >>
  /\ UNCHANGED <<out_dir, theta, alpha, Mb, Fb, beta, U3, geom,
                 Tp, W, A_mom,
                 mode, files,
                 atol, rtol, max_iter, starting_i, abs_error_n, tht_nrm,
                 caller, status>>
  /\ UNCHANGED sweep

\* lines 2618-2629 : the two class checks, before everything else
thermo_enter ==
  IF objects.momentum # "Momentum" \/ objects.energy # "Energy"
    THEN /\ status = "ok"
         /\ pc = "enter"
         /\ status' = "SystemExit(1)"
         /\ UNCHANGED <<out_dir, fields, transient, mode, wop_bounds, files,
                        tmcframe, steps, iters, caller, sweep>>
    ELSE thermo_locals


\* variant: one iteration past max_iter
LoopCond_late(ae, re, c, at, rt, mi) == ae > at /\ re > rt /\ c <= mi + 1

\* line 2671 : the loop condition
LoopCond(ae, re, c, at, rt, mi) == ae > at /\ re > rt /\ c <= mi

thermo_while ==
  /\ status = "ok"
  /\ pc = "while"
  /\ pc' = IF LoopCond(abs_error, rel_error, counter, atol, rtol, max_iter)
             THEN "set_out_dir" ELSE "reset_dir"
  /\ steps' = << >>
  /\ UNCHANGED <<out_dir, fields, transient, mode, wop_bounds, files,
                 FrameLocals, iters, caller, status>>
  /\ UNCHANGED sweep

\* variant: one more digit than max_iter has
IterDir_wide(base, w, c) == base \o "tmc/" \o ZeroPad(w + 1, c) \o "/"

\* lines 2673-2675
IterDir(base, w, c) == base \o "tmc/" \o ZeroPad(w, c) \o "/"

thermo_set_out_dir ==
  /\ Goto("set_out_dir", "momentum_solve", "set_out_dir")
  /\ out_dir' = IterDir(out_dir_i, n_i, counter)
  /\ iters' = Append(iters, counter)
  /\ UNCHANGED <<fields, transient, mode, wop_bounds, files, FrameLocals,
                 caller, status>>
  /\ UNCHANGED sweep

\* variant: calc_T_melt is not called after momentum.solve
thermo_momentum_solve_skip(UV) ==
  /\ Goto("momentum_solve", "calc_q_fric", "momentum.solve")
  /\ U3' \in UV
  /\ A_mom' = RateFactor(Tp, W, geom.E)
  /\ UNCHANGED <<out_dir, theta, alpha, Mb, Fb, Fb_min, Fb_max, beta, geom,
                 Tp, W,
                 transient, mode, wop_bounds, files, FrameLocals, iters,
                 caller, status>>
  /\ UNCHANGED sweep

\* line 2678 : momentum.solve writes the velocity; its form holds self.A,
\* the expression of lines 1766-1773, evaluated with the fields as they are
thermo_momentum_solve(UV) ==
  /\ Goto("momentum_solve", "calc_T_melt", "momentum.solve")
  /\ U3' \in UV
  /\ A_mom' = RateFactor(Tp, W, geom.E)
  /\ UNCHANGED <<out_dir, theta, alpha, Mb, Fb, Fb_min, Fb_max, beta, geom,
                 Tp, W,
                 transient, mode, wop_bounds, files, FrameLocals, iters,
                 caller, status>>
  /\ UNCHANGED sweep

\* lines 2681-2688 : calls that write fields no driver statement reads
thermo_calc_T_melt ==
  /\ Goto("calc_T_melt", "calc_q_fric", "energy.calc_T_melt")
  /\ UNCHANGED <<out_dir, fields, transient, mode, wop_bounds, files,
                 FrameLocals, iters, caller, status>>
  /\ UNCHANGED sweep

thermo_calc_q_fric ==
  /\ Goto("calc_q_fric", "calc_btf", "momentum.calc_q_fric")
  /\ UNCHANGED <<out_dir, fields, transient, mode, wop_bounds, files,
                 FrameLocals, iters, caller, status>>
  /\ UNCHANGED sweep

thermo_calc_basal_temperature_flux ==
  /\ Goto("calc_btf", "calc_btmf", "energy.calc_basal_temperature_flux")
  /\ UNCHANGED <<out_dir, fields, transient, mode, wop_bounds, files,
                 FrameLocals, iters, caller, status>>
  /\ UNCHANGED sweep

thermo_calc_basal_temperature_melting_flux ==
  /\ Goto("calc_btmf", "derive_tz",
          "energy.calc_basal_temperature_melting_flux")
  /\ UNCHANGED <<out_dir, fields, transient, mode, wop_bounds, files,
                 FrameLocals, iters, caller, status>>
  /\ UNCHANGED sweep

\* line 2691 : energy.derive_temperate_zone writes alpha
thermo_derive_temperate_zone(AV) ==
  /\ Goto("derive_tz", "update_tp", "energy.derive_temperate_zone")
  /\ alpha' \in AV
  /\ UNCHANGED <<out_dir, theta, Mb, Fb, Fb_min, Fb_max, beta, U3, geom,
                 Tp, W, A_mom,
                 transient, mode, wop_bounds, files, FrameLocals, iters,
                 caller, status>>
  /\ UNCHANGED sweep

\* line 2695
thermo_update_thermal_parameters ==
  /\ Goto("update_tp", "solve_Mb", "energy.update_thermal_parameters")
  /\ UNCHANGED <<out_dir, fields, transient, mode, wop_bounds, files,
                 FrameLocals, iters, caller, status>>
  /\ UNCHANGED sweep

\* line 2698 : energy.solve_basal_melt_rate writes Mb
thermo_solve_basal_melt_rate(MV) ==
  /\ Goto("solve_Mb", "init_Fb", "energy.solve_basal_melt_rate")
  /\ Mb' \in MV
  /\ UNCHANGED <<out_dir, theta, alpha, Fb, Fb_min, Fb_max, beta, U3, geom,
                 Tp, W, A_mom,
                 transient, mode, wop_bounds, files, FrameLocals, iters,
                 caller, status>>
  /\ UNCHANGED sweep

\* line 2701 : Fb_v = Mb * rhoi / rhow
ZeroEnergyFlux(mb) == [d \in Dofs |-> (mb[d] * rhoi) \div rhow]

\* variant: the flux is written to beta
thermo_init_Fb_beta ==
  /\ Goto("init_Fb", "update_bounds", "init_Fb")
  /\ beta' = ZeroEnergyFlux(Mb)
  /\ UNCHANGED <<out_dir, theta, alpha, Mb, Fb, Fb_min, Fb_max, U3, geom,
                 Tp, W, A_mom,
                 transient, mode, wop_bounds, files, FrameLocals, iters,
                 caller, status>>
  /\ UNCHANGED sweep

\* lines 2700-2702
thermo_init_Fb ==
  /\ Goto("init_Fb", "update_bounds", "init_Fb")
  /\ Fb' = ZeroEnergyFlux(Mb)
  /\ UNCHANGED <<out_dir, theta, alpha, Mb, Fb_min, Fb_max, beta, U3, geom,
                 Tp, W, A_mom,
                 transient, mode, wop_bounds, files, FrameLocals, iters,
                 caller, status>>
  /\ UNCHANGED sweep

\* variant: the upper bound on every dof, cold or temperate
TemperateBound_all(al, hi) == [d \in Dofs |-> hi]

\* lines 2706-2709 : eps everywhere, the upper bound where alpha == 1.0
TemperateBound(al, hi) ==
  [d \in Dofs |-> IF al[d] = 1 THEN hi ELSE DOLFIN_EPS]

\* lines 2704-2710
thermo_update_bounds ==
  /\ status = "ok"
  /\ pc = "update_bounds"
  /\ pc' = "optimize"
  /\ IF mode = "Fb"
       THEN /\ Fb_max' = TemperateBound(alpha, bounds.hi)
            /\ steps' = Append(steps, "init_Fb_max")
       ELSE UNCHANGED <<Fb_max, steps>>
  /\ UNCHANGED <<out_dir, theta, alpha, Mb, Fb, Fb_min, beta, U3, geom,
                 Tp, W, A_mom,
                 transient, mode, wop_bounds, files, FrameLocals, iters,
                 caller, status>>
  /\ UNCHANGED sweep

\* energy.optimize_water_flux(bounds = (Fb_min, Fb_max)) : a bound-constrained
\* minimisation over Fb; with an empty box the result is any value
WaterFluxOutcomes(lo, hi, FV) ==
  IF \A d \in Dofs : lo[d] <= hi[d]
    THEN {f \in [Dofs -> FV] : \A d \in Dofs : lo[d] <= f[d] /\ f[d] <= hi[d]}
    ELSE [Dofs -> FV]

\* variant: optimize_water_flux leaves Fb as init_Fb set it
thermo_optimize_water_flux_skip(FV) ==
  /\ status = "ok"
  /\ pc = "optimize"
  /\ pc' = "energy_solve"
  /\ IF mode = "Fb"
       THEN steps' = Append(steps, "energy.optimize_water_flux")
       ELSE UNCHANGED steps
  /\ UNCHANGED <<out_dir, fields, transient, mode, wop_bounds, files,
                 FrameLocals, iters, caller, status>>
  /\ UNCHANGED sweep

\* lines 2712-2714
thermo_optimize_water_flux(FV) ==
  /\ status = "ok"
  /\ pc = "optimize"
  /\ pc' = "energy_solve"
  /\ IF mode = "Fb"
       THEN /\ Fb' \in WaterFluxOutcomes(Fb_min, Fb_max, FV)
            /\ steps' = Append(steps, "energy.optimize_water_flux")
       ELSE UNCHANGED <<Fb, steps>>
  /\ UNCHANGED <<out_dir, theta, alpha, Mb, Fb_min, Fb_max, beta, U3, geom,
                 Tp, W, A_mom,
                 transient, mode, wop_bounds, files, FrameLocals, iters,
                 caller, status>>
  /\ UNCHANGED sweep

\* variant: theta is solved but not partitioned into Tp and W
thermo_energy_solve_stale(TV) ==
  /\ Goto("energy_solve", "norms", "energy.solve")
  /\ theta' \in TV
  /\ UNCHANGED <<out_dir, alpha, Mb, Fb, Fb_min, Fb_max, beta, U3, geom,
                 Tp, W, A_mom,
                 transient, mode, wop_bounds, files, FrameLocals, iters,
                 caller, status>>
  /\ UNCHANGED sweep

\* line 2717 : energy.solve writes theta and partitions it into Tp and W
thermo_energy_solve(TV) ==
  /\ Goto("energy_solve", "norms", "energy.solve")
  /\ theta' \in TV
  /\ Tp' = partition_energy(theta').Tp
  /\ W' = partition_energy(theta').W
  /\ UNCHANGED <<out_dir, alpha, Mb, Fb, Fb_min, Fb_max, beta, U3, geom,
                 A_mom,
                 transient, mode, wop_bounds, files, FrameLocals, iters,
                 caller, status>>
  /\ UNCHANGED sweep

\* lines 2678 and 2717 : momentum.solve or energy.solve raises; the loop of
\* lines 2671-2779 has no try statement, so the exception leaves thermo_solve
\* at once with everything as it is
thermo_solver_raises ==
  /\ status = "ok"
  /\ pc \in {"momentum_solve", "energy_solve"}
  /\ status' = "RuntimeError"
  /\ UNCHANGED <<out_dir, fields, transient, mode, wop_bounds, files,
                 tmcframe, steps, iters, caller, sweep>>

\* lines 2719-2721
thermo_norms ==
  /\ Goto("norms", "history", "")
  /\ abs_error_n' = norm_l2(Diff(U_prev, theta))
  /\ tht_nrm' = norm_l2(theta)
  /\ UNCHANGED <<out_dir, fields, transient, mode, wop_bounds, files,
                 atol, rtol, max_iter, starting_i, out_dir_i, d_hist, n_i,
                 bounds, abs_error, rel_error, counter, U_prev, iters,
                 caller, status>>
  /\ UNCHANGED sweep

\* variant: the difference of residuals in every iteration
RelError_diff(c, ae, aen) == AbsDiff(ae, aen)

\* lines 2724-2739 : the relative residual of iteration c
RelError(c, ae, aen) == IF c = 1 THEN aen ELSE AbsDiff(ae, aen)

\* variant: a log that exists is always appended to
LogAfter_append(fs, path, c, v) ==
  IF path \in DOMAIN fs THEN savetxt(fs, path, Append(fs[path], v))
                        ELSE savetxt(fs, path, <<v>>)

\* lines 2724-2739 : one log after iteration c; np.loadtxt needs the file
LogAfter(fs, path, c, v) ==
  IF c = 1 THEN savetxt(fs, path, <<v>>)
           ELSE savetxt(fs, path, Append(fs[path], v))

LogReadable(fs, path, c) == c = 1 \/ path \in DOMAIN fs

thermo_history ==
  /\ status = "ok"
  /\ pc = "history"
  /\ rel_error' = RelError(counter, abs_error, abs_error_n)
  /\ IF /\ LogReadable(files, d_hist \o "abs_err.txt", counter)
        /\ LogReadable(files, d_hist \o "theta_norm.txt", counter)
       THEN /\ files' = LogAfter(LogAfter(files, d_hist \o "abs_err.txt",
                                          counter, abs_error_n),
                                 d_hist \o "theta_norm.txt", counter, tht_nrm)
            /\ pc' = "update"
            /\ UNCHANGED status
       ELSE /\ status' = "IOError"
            /\ UNCHANGED <<files, pc>>
  /\ UNCHANGED <<out_dir, fields, transient, mode, wop_bounds,
                 atol, rtol, max_iter, starting_i, out_dir_i, d_hist, n_i,
                 bounds, abs_error, counter, U_prev, abs_error_n, tht_nrm,
                 steps, iters, caller>>
  /\ UNCHANGED sweep

\* lines 2760-2763
thermo_update ==
  /\ Goto("update", "while", "")
  /\ abs_error' = abs_error_n
  /\ U_prev' = theta
  /\ counter' = counter + 1
  /\ UNCHANGED <<out_dir, fields, transient, mode, wop_bounds, files,
                 atol, rtol, max_iter, starting_i, out_dir_i, d_hist, n_i,
                 bounds, rel_error, abs_error_n, tht_nrm, iters, caller,
                 status>>
  /\ UNCHANGED sweep

\* variant: the output directory is left at the last iteration's
thermo_reset_dir_keep ==
  /\ Goto("reset_dir", "reset_bounds", "")
  /\ UNCHANGED <<out_dir, fields, transient, mode, wop_bounds, files,
                 FrameLocals, iters, caller, status>>
  /\ UNCHANGED sweep

\* lines 2781-2782
thermo_reset_dir ==
  /\ Goto("reset_dir", "reset_bounds", "")
  /\ out_dir' = out_dir_i
  /\ UNCHANGED <<fields, transient, mode, wop_bounds, files, FrameLocals,
                 iters, caller, status>>
  /\ UNCHANGED sweep

\* variant: the bounds are left as the loop had them
thermo_reset_bounds_keep ==
  /\ Goto("reset_bounds", "plot", "")
  /\ UNCHANGED <<out_dir, fields, transient, mode, wop_bounds, files,
                 FrameLocals, iters, caller, status>>
  /\ UNCHANGED sweep

\* lines 2784-2785
thermo_reset_bounds ==
  /\ Goto("reset_bounds", "plot", "")
  /\ wop_bounds' = IF mode = "Fb" THEN bounds ELSE wop_bounds
  /\ UNCHANGED <<out_dir, fields, transient, mode, files, FrameLocals,
                 iters, caller, status>>
  /\ UNCHANGED sweep

\* lines 2810-2814 : the history is read back for the plots
thermo_plot ==
  /\ status = "ok"
  /\ pc = "plot"
  /\ IF /\ d_hist \o "abs_err.txt" \in DOMAIN files
        /\ d_hist \o "theta_norm.txt" \in DOMAIN files
       THEN pc' = "return" /\ UNCHANGED status
       ELSE status' = "IOError" /\ UNCHANGED pc
  /\ UNCHANGED <<out_dir, fields, transient, mode, wop_bounds, files,
                 FrameLocals, steps, iters, caller>>
  /\ UNCHANGED sweep

----------------------------------------------------------------------------
(* Calling thermo_solve and returning from it *)

NoBounds == [kind |-> "none", lo |-> 0, hi |-> 0]

\* the frame of thermo_solve before it is entered and after it has returned
FrameCleared ==
  /\ atol' = 0 /\ rtol' = 0 /\ max_iter' = 0 /\ starting_i' = 0
  /\ out_dir_i' = "" /\ d_hist' = "" /\ n_i' = 0 /\ bounds' = NoBounds
  /\ abs_error' = 0 /\ rel_error' = 0 /\ counter' = 0
  /\ U_prev' = Const(0) /\ abs_error_n' = 0 /\ tht_nrm' = 0

\* self.thermo_solve(momentum, energy, wop_kwargs, **kw)
ThermoCall(kw) ==
  /\ pc = "none"
  /\ pc' = "enter"
  /\ atol' = kw.atol
  /\ rtol' = kw.rtol
  /\ max_iter' = kw.max_iter
  /\ starting_i' = kw.starting_i
  /\ UNCHANGED <<out_dir_i, d_hist, n_i, bounds, abs_error, rel_error,
                 counter, U_prev, abs_error_n, tht_nrm, steps, iters>>

ThermoReturned ==
  /\ pc = "return"
  /\ pc' = "none"
  /\ FrameCleared
  /\ UNCHANGED <<steps, iters>>

----------------------------------------------------------------------------
(* assimilate_U_ob *)

AIdle ==
  [pc |-> "none", atol |-> 0, rtol |-> 0, max_iter |-> 0, starting_i |-> 0,
   initialize |-> FALSE, incomplete |-> FALSE, save |-> FALSE, beta_i |-> 0,
   out_dir_i |-> "", d_hist |-> "", n_i |-> 0, abs_error |-> 0,
   rel_error |-> 0, counter |-> 0, beta_prev |-> Const(0),
   abs_error_n |-> 0, beta_nrm |-> 0, bounds |-> NoBounds]

\* a step of assimilate_U_ob made while thermo_solve is not running
AStep(from) ==
  /\ status = "ok"
  /\ pc = "none"
  /\ A.pc = from

\* lines 2850-2878 : everything before the initialization step
assim_enter ==
  /\ AStep("enter")
  /\ beta' = Const(A.beta_i)
  /\ A' = [A EXCEPT !.pc = "initialize",
                    !.out_dir_i = out_dir,
                    !.d_hist = out_dir \o "convergence_history/",
                    !.n_i = Len(str(A.max_iter)),
                    !.abs_error = Inf,
                    !.rel_error = Inf,
                    !.counter = IF A.starting_i <= 1 THEN 1
                                                     ELSE A.starting_i,
                    !.beta_prev = Const(A.beta_i)]
  /\ a_steps' = << "init_beta" >>
  /\ a_iters' = << >>
  /\ UNCHANGED <<out_dir, theta, alpha, Mb, Fb, Fb_min, Fb_max, U3, geom,
                 Tp, W, A_mom,
                 transient, mode, wop_bounds, files, tmcframe, steps, iters,
                 script, linear, linear_s, tmc_kwargs, given, status>>
  /\ UNCHANGED sweep

\* variant: a restart (starting_i > 1) skips the initialization step
assim_initialize_fresh ==
  /\ AStep("initialize")
  /\ IF A.initialize /\ A.starting_i <= 1
       THEN /\ out_dir' = A.out_dir_i \o "initialization/"
            /\ A' = [A EXCEPT !.pc = "ini_tmc"]
       ELSE /\ A' = [A EXCEPT !.pc = "bounds"]
            /\ UNCHANGED out_dir
  /\ UNCHANGED <<fields, transient, mode, wop_bounds, files, tmcframe, steps,
                 iters, script, linear, linear_s, tmc_kwargs, given, a_steps,
                 a_iters, status>>
  /\ UNCHANGED sweep

\* lines 2880-2887 : the directory of the initialization step
assim_initialize ==
  /\ AStep("initialize")
  /\ IF A.initialize
       THEN /\ out_dir' = A.out_dir_i \o "initialization/"
            /\ A' = [A EXCEPT !.pc = "ini_tmc"]
       ELSE /\ A' = [A EXCEPT !.pc = "bounds"]
            /\ UNCHANGED out_dir
  /\ UNCHANGED <<fields, transient, mode, wop_bounds, files, tmcframe, steps,
                 iters, script, linear, linear_s, tmc_kwargs, given, a_steps,
                 a_iters, status>>
  /\ UNCHANGED sweep

\* line 2890 : self.thermo_solve(**tmc_kwargs)
assim_ini_thermo_solve ==
  /\ AStep("ini_tmc")
  /\ ThermoCall(tmc_kwargs)
  /\ A' = [A EXCEPT !.pc = "ini_wait"]
  /\ a_steps' = Append(a_steps, "thermo_solve")
  /\ UNCHANGED <<out_dir, fields, transient, mode, wop_bounds, files,
                 script, linear, linear_s, tmc_kwargs, given, a_iters, status>>
  /\ UNCHANGED sweep

\* lines 2892-2897 : back from thermo_solve, the post_ini_callback
assim_post_ini ==
  /\ status = "ok"
  /\ A.pc = "ini_wait"
  /\ ThermoReturned
  /\ A' = [A EXCEPT !.pc = "bounds"]
  /\ a_steps' = Append(a_steps, "post_ini_callback")
  /\ UNCHANGED <<out_dir, fields, transient, mode, wop_bounds, files,
                 script, linear, linear_s, tmc_kwargs, given, a_iters, status>>
  /\ UNCHANGED sweep

\* lines 2904-2905
assim_bounds ==
  /\ AStep("bounds")
  /\ A' = [A EXCEPT !.pc = "while", !.bounds = wop_bounds]
  /\ UNCHANGED <<out_dir, fields, transient, mode, wop_bounds, files,
                 tmcframe, steps, iters, script, linear, linear_s,
                 tmc_kwargs, given, a_steps, a_iters, status>>
  /\ UNCHANGED sweep

\* line 2908
assim_while ==
  /\ AStep("while")
  /\ A' = [A EXCEPT !.pc =
             IF LoopCond(A.abs_error, A.rel_error, A.counter,
                         A.atol, A.rtol, A.max_iter)
               THEN "set_out_dir" ELSE "plot"]
  /\ a_steps' = << >>
  /\ UNCHANGED <<out_dir, fields, transient, mode, wop_bounds, files,
                 tmcframe, steps, iters, script, linear, linear_s,
                 tmc_kwargs, given, a_iters, status>>
  /\ UNCHANGED sweep

\* variant: one more digit than max_iter has
AssimDir_wide(base, w, c) == base \o ZeroPad(w + 1, c) \o "/"

\* lines 2912-2914
AssimDir(base, w, c) == base \o ZeroPad(w, c) \o "/"

assim_set_out_dir ==
  /\ AStep("set_out_dir")
  /\ out_dir' = AssimDir(A.out_dir_i, A.n_i, A.counter)
  /\ A' = [A EXCEPT !.pc = "linearize"]
  /\ a_steps' = Append(a_steps, "set_out_dir")
  /\ a_iters' = Append(a_iters, A.counter)
  /\ UNCHANGED <<fields, transient, mode, wop_bounds, files, tmcframe, steps,
                 iters, script, linear, linear_s, tmc_kwargs, given, status>>
  /\ UNCHANGED sweep

\* lines 2916-2920 : momentum.linearize_viscosity(reset_orig_config=True)
\* an attribute of the momentum argument is read: an object that is not a
\* Momentum has none of them
NoAttribute(at) ==
  /\ AStep(at)
  /\ status' = "AttributeError"
  /\ UNCHANGED <<out_dir, fields, transient, mode, wop_bounds, files,
                 tmcframe, steps, iters, caller, sweep>>

\* momentum.linearize_viscosity(reset_orig_config = True) : the viscosity is
\* frozen and momentum.linear set; momentum.linear_s keeps the configuration
\* the momentum was built with
linearize_viscosity(lin) == TRUE

\* momentum.reset() : the configuration the momentum was built with
reset(lin_s) == lin_s

assim_linearize ==
  IF A.incomplete /\ objects.a_momentum # "Momentum"
    THEN NoAttribute("linearize")
    ELSE /\ AStep("linearize")
         /\ A' = [A EXCEPT !.pc = "reseed"]
         /\ IF A.incomplete /\ ~linear
              THEN /\ linear' = linearize_viscosity(linear)
                   /\ a_steps' = Append(a_steps,
                                        "momentum.linearize_viscosity")
              ELSE UNCHANGED <<linear, a_steps>>
         /\ UNCHANGED <<out_dir, fields, transient, mode, wop_bounds, files,
                        tmcframe, steps, iters, script, linear_s, tmc_kwargs,
                        given, a_iters, status>>
         /\ UNCHANGED sweep

\* variant: beta is re-seeded only from the iteration after the next
assim_reseed_late ==
  /\ AStep("reseed")
  /\ A' = [A EXCEPT !.pc = "optimize_U_ob"]
  /\ IF A.counter > A.starting_i + 1
       THEN /\ beta' = Const(A.beta_i)
            /\ a_steps' = Append(a_steps, "init_beta")
       ELSE UNCHANGED <<beta, a_steps>>
  /\ UNCHANGED <<out_dir, theta, alpha, Mb, Fb, Fb_min, Fb_max, U3, geom,
                 Tp, W, A_mom,
                 transient, mode, wop_bounds, files, tmcframe, steps, iters,
                 script, linear, linear_s, tmc_kwargs, given, a_iters, status>>
  /\ UNCHANGED sweep

\* lines 2922-2923
assim_reseed ==
  /\ AStep("reseed")
  /\ A' = [A EXCEPT !.pc = "optimize_U_ob"]
  /\ IF A.counter > A.starting_i
       THEN /\ beta' = Const(A.beta_i)
            /\ a_steps' = Append(a_steps, "init_beta")
       ELSE UNCHANGED <<beta, a_steps>>
  /\ UNCHANGED <<out_dir, theta, alpha, Mb, Fb, Fb_min, Fb_max, U3, geom,
                 Tp, W, A_mom,
                 transient, mode, wop_bounds, files, tmcframe, steps, iters,
                 script, linear, linear_s, tmc_kwargs, given, a_iters, status>>
  /\ UNCHANGED sweep

\* lines 2925-2926 : momentum.optimize_U_ob writes beta
assim_optimize_U_ob(BV) ==
  IF objects.a_momentum # "Momentum"
    THEN NoAttribute("optimize_U_ob")
    ELSE /\ AStep("optimize_U_ob")
         /\ A' = [A EXCEPT !.pc = "reset"]
         /\ beta' \in BV
         /\ a_steps' = Append(a_steps, "momentum.optimize_U_ob")
         /\ UNCHANGED <<out_dir, theta, alpha, Mb, Fb, Fb_min, Fb_max, U3,
                        geom, Tp, W, A_mom,
                        transient, mode, wop_bounds, files, tmcframe, steps,
                        iters, script, linear, linear_s, tmc_kwargs, given,
                        a_iters, status>>
         /\ UNCHANGED sweep

\* variant: the momentum is left linearized
assim_reset_never ==
  /\ AStep("reset")
  /\ A' = [A EXCEPT !.pc = "tmc"]
  /\ UNCHANGED <<linear, a_steps>>
  /\ UNCHANGED <<out_dir, fields, transient, mode, wop_bounds, files,
                 tmcframe, steps, iters, script, linear_s, tmc_kwargs, given,
                 a_iters, status>>
  /\ UNCHANGED sweep

\* lines 2928-2929 : momentum.reset() restores the first configuration
assim_reset ==
  /\ AStep("reset")
  /\ A' = [A EXCEPT !.pc = "tmc"]
  /\ IF ~linear_s /\ linear
       THEN /\ linear' = reset(linear_s)
            /\ a_steps' = Append(a_steps, "momentum.reset")
       ELSE UNCHANGED <<linear, a_steps>>
  /\ UNCHANGED <<out_dir, fields, transient, mode, wop_bounds, files,
                 tmcframe, steps, iters, script, linear_s, tmc_kwargs, given,
                 a_iters, status>>
  /\ UNCHANGED sweep

\* lines 2931-2932 : self.thermo_solve(**tmc_kwargs)
assim_thermo_solve ==
  /\ AStep("tmc")
  /\ ThermoCall(tmc_kwargs)
  /\ A' = [A EXCEPT !.pc = "tmc_wait"]
  /\ a_steps' = Append(a_steps, "thermo_solve")
  /\ UNCHANGED <<out_dir, fields, transient, mode, wop_bounds, files,
                 script, linear, linear_s, tmc_kwargs, given, a_iters, status>>
  /\ UNCHANGED sweep

\* lines 2934-2936 : back from thermo_solve, the norms
assim_norms ==
  /\ status = "ok"
  /\ A.pc = "tmc_wait"
  /\ ThermoReturned
  /\ A' = [A EXCEPT !.pc = "history",
                    !.abs_error_n = norm_l2(Diff(A.beta_prev, beta)),
                    !.beta_nrm = norm_l2(beta)]
  /\ a_steps' = Append(a_steps, "norm")
  /\ UNCHANGED <<out_dir, fields, transient, mode, wop_bounds, files,
                 script, linear, linear_s, tmc_kwargs, given, a_iters,
                 status>>
  /\ UNCHANGED sweep

\* lines 2938-2954
assim_history ==
  /\ AStep("history")
  /\ IF /\ LogReadable(files, A.d_hist \o "abs_err.txt", A.counter)
        /\ LogReadable(files, A.d_hist \o "beta_norm.txt", A.counter)
       THEN /\ files' = LogAfter(LogAfter(files, A.d_hist \o "abs_err.txt",
                                          A.counter, A.abs_error_n),
                                 A.d_hist \o "beta_norm.txt", A.counter,
                                 A.beta_nrm)
            /\ A' = [A EXCEPT !.pc = "save",
                              !.rel_error = RelError(A.counter, A.abs_error,
                                                     A.abs_error_n)]
            /\ a_steps' = Append(a_steps, "history")
            /\ UNCHANGED status
       ELSE /\ status' = "IOError"
            /\ A' = [A EXCEPT !.rel_error = RelError(A.counter, A.abs_error,
                                                     A.abs_error_n)]
            /\ UNCHANGED <<files, a_steps>>
  /\ UNCHANGED <<out_dir, fields, transient, mode, wop_bounds, tmcframe,
                 steps, iters, script, linear, linear_s, tmc_kwargs, given, a_iters>>
  /\ UNCHANGED sweep

\* lines 2975-2983 : post_iter_save_vars is saved to out_dir + 'inverted.h5'
assim_save ==
  /\ AStep("save")
  /\ A' = [A EXCEPT !.pc = "update"]
  /\ a_steps' = IF A.save THEN Append(a_steps, out_dir \o "inverted.h5")
                         ELSE a_steps
  /\ UNCHANGED <<out_dir, fields, transient, mode, wop_bounds, files,
                 tmcframe, steps, iters, script, linear, linear_s,
                 tmc_kwargs, given, a_iters, status>>
  /\ UNCHANGED sweep

\* lines 2985-2988
assim_update ==
  /\ AStep("update")
  /\ A' = [A EXCEPT !.pc = "while",
                    !.abs_error = A.abs_error_n,
                    !.beta_prev = beta,
                    !.counter = A.counter + 1]
  /\ UNCHANGED <<out_dir, fields, transient, mode, wop_bounds, files,
                 tmcframe, steps, iters, script, linear, linear_s,
                 tmc_kwargs, given, a_steps, a_iters, status>>
  /\ UNCHANGED sweep

\* lines 3003-3007 : the history is read back for the plots, then the return
assim_plot ==
  /\ AStep("plot")
  /\ IF /\ A.d_hist \o "abs_err.txt" \in DOMAIN files
        /\ A.d_hist \o "beta_norm.txt" \in DOMAIN files
       THEN /\ A' = AIdle
            /\ script' = "done"
            /\ UNCHANGED status
       ELSE /\ status' = "IOError"
            /\ UNCHANGED <<A, script>>
  /\ UNCHANGED <<out_dir, fields, transient, mode, wop_bounds, files,
                 tmcframe, steps, iters, linear, linear_s, tmc_kwargs, given,
                 a_steps, a_iters>>
  /\ UNCHANGED sweep

AssimStep(BV) ==
  \/ assim_enter
  \/ assim_initialize
  \/ assim_ini_thermo_solve
  \/ assim_post_ini
  \/ assim_bounds
  \/ assim_while
  \/ assim_set_out_dir
  \/ assim_linearize
  \/ assim_reseed
  \/ assim_optimize_U_ob(BV)
  \/ assim_reset
  \/ assim_thermo_solve
  \/ assim_norms
  \/ assim_history
  \/ assim_save
  \/ assim_update
  \/ assim_plot

----------------------------------------------------------------------------
(* L_curve *)

\* The physics object exposes reset() and optimize(); its state is the list
\* of what was done to it since it was built, and reset() empties the list.
Built == << >>

LIdle == [pc |-> "none", alphas |-> << >>, i |-> 0, alpha |-> 0,
          out_dir_i |-> "", control_ini |-> 0, I |-> 0,
          pre_callback |-> FALSE, post_callback |-> FALSE,
          itr_save_vars |-> FALSE]

NoArrays == [alphas |-> << >>, J_logs |-> << >>, ns |-> << >>]

LObs0 == [steps |-> << >>, entered |-> << >>, left |-> << >>,
          start |-> [physics |-> Built, control |-> 0],
          arrays |-> NoArrays]

LStep(at) == status = "ok" /\ L.pc = at

LRest == <<fields, transient, mode, wop_bounds, tmcframe, steps, iters,
           caller, status, timeloop, passed>>

\* 'alpha_%.1E/' % alpha
AlphaDir(a) == "alpha_" \o FmtE1(a) \o "/"

\* the trace that physics.optimize leaves under the directory dir
Trace(dir) == dir \o "objective_ftnls_history/J_log.txt"

\* lines 3041-3045 : retain the base directory and the initial control
lcurve_enter ==
  /\ LStep("enter")
  /\ L' = [L EXCEPT !.pc = "for", !.out_dir_i = out_dir,
                    !.control_ini = control, !.i = 0]
  /\ UNCHANGED <<out_dir, files, physics, control, l_obs, LRest>>

\* line 3048 : for i,alpha in enumerate(alphas)
lcurve_for ==
  /\ LStep("for")
  /\ IF L.i < Len(L.alphas)
       THEN /\ L' = [L EXCEPT !.pc = "reset", !.alpha = L.alphas[L.i + 1]]
            /\ l_obs' = [l_obs EXCEPT !.steps = << >>]
       ELSE /\ L' = [L EXCEPT !.pc = "collect"]
            /\ UNCHANGED l_obs
  /\ UNCHANGED <<out_dir, files, physics, control, LRest>>

\* variant: the physics is reset but the control is left as optimize left it
lcurve_reset_norestore ==
  /\ LStep("reset")
  /\ L' = [L EXCEPT !.pc = "set_out_dir"]
  /\ IF L.i > 0
       THEN /\ physics' = Built
            /\ l_obs' = [l_obs EXCEPT !.steps = @ \o << "physics.reset" >>]
       ELSE UNCHANGED <<physics, l_obs>>
  /\ UNCHANGED <<out_dir, files, control, LRest>>

\* lines 3052-3057 : reset everything after the first iteration
lcurve_reset ==
  /\ LStep("reset")
  /\ L' = [L EXCEPT !.pc = "set_out_dir"]
  /\ IF L.i > 0
       THEN /\ physics' = Built
            /\ control' = L.control_ini
            /\ l_obs' = [l_obs EXCEPT !.steps =
                           @ \o << "physics.reset", "assign_variable" >>]
       ELSE UNCHANGED <<physics, control, l_obs>>
  /\ UNCHANGED <<out_dir, files, LRest>>

\* lines 3059-3061
lcurve_set_out_dir ==
  /\ LStep("set_out_dir")
  /\ out_dir' = L.out_dir_i \o AlphaDir(L.alpha)
  /\ L' = [L EXCEPT !.pc = "pre_callback"]
  /\ l_obs' = [l_obs EXCEPT !.steps = Append(@, "set_out_dir")]
  /\ UNCHANGED <<files, physics, control, LRest>>

\* lines 3063-3067
lcurve_pre_callback ==
  /\ LStep("pre_callback")
  /\ L' = [L EXCEPT !.pc = "objective"]
  /\ l_obs' = [l_obs EXCEPT !.steps = IF L.pre_callback
                                        THEN Append(@, "pre_callback") ELSE @]
  /\ UNCHANGED <<out_dir, files, physics, control, LRest>>

\* variant: the objective is formed once, with the first weight
lcurve_objective_once ==
  /\ LStep("objective")
  /\ L' = [L EXCEPT !.pc = "optimize",
                    !.I = IF L.i = 0 THEN L.alpha ELSE @]
  /\ UNCHANGED <<out_dir, files, physics, control, l_obs, LRest>>

\* line 3070 : adj_kwargs['I'] = J + alpha*R, kept as the weight alpha
lcurve_objective ==
  /\ LStep("objective")
  /\ L' = [L EXCEPT !.pc = "optimize", !.I = L.alpha]
  /\ UNCHANGED <<out_dir, files, physics, control, l_obs, LRest>>

\* line 3073 : physics.optimize(**adj_kwargs) leaves any control of CV and
\* the trace of the objective under the current directory
lcurve_optimize(CV) ==
  /\ LStep("optimize")
  /\ \E c \in CV :
       /\ control' = c
       /\ files' = savetxt(files, Trace(out_dir), << c >>)
       /\ l_obs' = [l_obs EXCEPT
                      !.steps = Append(@, "physics.optimize"),
                      !.entered = Append(@, [alpha |-> L.alpha,
                                             physics |-> physics,
                                             control |-> control,
                                             I |-> L.I, dir |-> out_dir]),
                      !.left = Append(@, c)]
  /\ physics' = Append(physics, [op |-> "optimize", I |-> L.I])
  /\ L' = [L EXCEPT !.pc = "post_callback"]
  /\ UNCHANGED <<out_dir, LRest>>

\* lines 3075-3079
lcurve_post_callback ==
  /\ LStep("post_callback")
  /\ L' = [L EXCEPT !.pc = "save"]
  /\ l_obs' = [l_obs EXCEPT !.steps = IF L.post_callback
                                        THEN Append(@, "post_callback") ELSE @]
  /\ UNCHANGED <<out_dir, files, physics, control, LRest>>

\* lines 3081-3089 : the save list goes to lcurve.h5 of the current directory
lcurve_save ==
  /\ LStep("save")
  /\ L' = [L EXCEPT !.pc = "for", !.i = @ + 1]
  /\ l_obs' = [l_obs EXCEPT !.steps = IF L.itr_save_vars
                                        THEN Append(@, out_dir \o "lcurve.h5")
                                        ELSE @]
  /\ UNCHANGED <<out_dir, files, physics, control, LRest>>

\* the values, in hundredths, that '%.1E' writes exactly: the names that
\* '(alpha_)(\d\W\dE\W\d+)' matches, and float(m.group(2)) of each
E1Values == {m * Pow10(k) : m \in 10..99, k \in 0..MaxExp} \cup (1..9)

E1Table == [v \in E1Values |-> FmtE1(v)]

\* next(os.walk(base))[1], filtered by the regular expression: a directory
\* is there when a trace is kept under it; each is given by its float
Walk(fs, base) ==
  {v \in E1Values : Trace(base \o "alpha_" \o E1Table[v] \o "/") \in DOMAIN fs}

\* the orders in which the elements of S can be listed
Orders(S) ==
  {o \in [1..Cardinality(S) -> S] : \A i, j \in DOMAIN o : o[i] = o[j] => i = j}

\* np.argsort(a)
argsort(a) ==
  CHOOSE idx \in Orders(1..Len(a)) :
    \A i, j \in 1..Len(a) : i < j => a[idx[i]] <= a[idx[j]]

\* a[idx]
Take(a, idx) == [i \in 1..Len(idx) |-> a[idx[i]]]

\* lines 3106-3155 : the traces of the directories under the base directory
\* are loaded in the order os.walk lists them, and every array is put in the
\* order of the weights
lcurve_collect ==
  /\ LStep("collect")
  /\ L' = [L EXCEPT !.pc = "done"]
  /\ \E ds \in Orders(Walk(files, L.out_dir_i)) :
       LET do(k)  == Trace(L.out_dir_i \o "alpha_" \o E1Table[ds[k]] \o "/")
           J_logs == [k \in 1..Len(ds) |-> files[do(k)]]
           ns     == [k \in 1..Len(ds) |-> Len(J_logs[k])]
           idx    == argsort(ds)
       IN  l_obs' = [l_obs EXCEPT !.arrays =
                       [alphas |-> Take(ds, idx), J_logs |-> Take(J_logs, idx),
                        ns |-> Take(ns, idx)]]
  /\ UNCHANGED <<out_dir, files, physics, control, LRest>>

LCurveStep(CV) ==
  \/ lcurve_enter
  \/ lcurve_for
  \/ lcurve_reset
  \/ lcurve_set_out_dir
  \/ lcurve_pre_callback
  \/ lcurve_objective
  \/ lcurve_optimize(CV)
  \/ lcurve_post_callback
  \/ lcurve_save
  \/ lcurve_collect

----------------------------------------------------------------------------
(* transient_solve *)

TIdle == [pc |-> "none", classes |-> "ok", adaptive |-> FALSE, t |-> 0, t_end |-> 0, time_step |-> 0,
          dt |-> 0, alpha |-> 0, solved_u |-> FALSE, solved_h |-> FALSE]

\* u, h : the calls of momentum.solve and mass.solve in the current time
\* step; floors : the back-offs that stopped at their floor so far
TObs0 == [u |-> << >>, h |-> << >>, floors |-> {}, nsteps |-> 0,
          entry |-> 0]

TStep(at) == status = "ok" /\ TS.pc = at

TRest == <<out_dir, files, transient, mode, wop_bounds, tmcframe, steps,
           iters, caller, lcurve, passed>>

TFields == <<alpha, Mb, Fb, Fb_min, Fb_max, beta, geom, A_mom>>

\* par['relaxation_parameter'] /= 1.43
Relaxed(p) == (p * 100) \div RelaxDiv

\* dt /= 2.0
Halved(d) == d \div 2

\* lines 3299-3320 : the three class checks, then the time step, t, dt and
\* the relaxation parameter of the momentum's Newton solver
transient_enter ==
  /\ TStep("enter")
  /\ IF TS.classes # "ok"
       THEN /\ status' = "SystemExit(1)"
            /\ UNCHANGED <<tsim, TS>>
       ELSE /\ tsim' = [tsim EXCEPT !.time_step = TS.time_step]
            /\ TS' = [TS EXCEPT !.pc = "while", !.dt = TS.time_step,
                                !.alpha = tsim.par]
            /\ UNCHANGED status
  /\ UNCHANGED <<fields, t_obs, TRest>>

\* line 3323 : while t <= t_end
transient_while ==
  /\ TStep("while")
  /\ IF TS.t <= TS.t_end
       THEN /\ TS' = [TS EXCEPT !.pc = "momentum"]
            /\ t_obs' = [t_obs EXCEPT !.u = << >>, !.h = << >>,
                                      !.nsteps = IF @ < MaxSpan + 1
                                                   THEN @ + 1 ELSE @]
       ELSE /\ TS' = [TS EXCEPT !.pc = "done"]
            /\ UNCHANGED t_obs
  /\ UNCHANGED <<fields, tsim, status, TRest>>

\* lines 3329-3331 and 3348-3349 : the adaptive loop is entered, or momentum
\* is solved once
transient_momentum(UV) ==
  /\ TStep("momentum")
  /\ IF TS.adaptive
       THEN /\ TS' = [TS EXCEPT !.pc = "u_test", !.solved_u = FALSE]
            /\ UNCHANGED <<U3, t_obs>>
       ELSE /\ TS' = [TS EXCEPT !.pc = "mass"]
            /\ U3' \in UV
            /\ t_obs' = [t_obs EXCEPT !.u = Append(@, [par |-> tsim.par,
                                                       ok |-> TRUE])]
  /\ UNCHANGED <<theta, Tp, W, TFields, tsim, status, TRest>>

\* variant: no floor under the relaxation parameter
transient_u_test_nofloor ==
  /\ TStep("u_test")
  /\ TS' = [TS EXCEPT !.pc = IF TS.solved_u THEN "mass" ELSE "u_solve"]
  /\ UNCHANGED <<fields, tsim, t_obs, status, TRest>>

\* lines 3332-3335 : while not solved_u, and the floor of the relaxation
transient_u_test ==
  /\ TStep("u_test")
  /\ IF TS.solved_u
       THEN TS' = [TS EXCEPT !.pc = "mass"] /\ UNCHANGED t_obs
       ELSE IF tsim.par < RelaxFloor
              THEN /\ TS' = [TS EXCEPT !.pc = "mass"]
                   /\ t_obs' = [t_obs EXCEPT !.floors = @ \cup {"relaxation"}]
              ELSE TS' = [TS EXCEPT !.pc = "u_solve"] /\ UNCHANGED t_obs
  /\ UNCHANGED <<fields, tsim, status, TRest>>

\* lines 3336-3346 : the velocity is reset, momentum.solve leaves any
\* velocity of UV and reports success or failure
transient_u_solve(UV) ==
  /\ TStep("u_solve")
  /\ U3' \in UV
  /\ \E ok \in BOOLEAN :
       /\ TS' = [TS EXCEPT !.pc = "u_test", !.solved_u = ok]
       /\ tsim' = IF ok THEN tsim ELSE [tsim EXCEPT !.par = Relaxed(@)]
       /\ t_obs' = [t_obs EXCEPT !.u = Append(@, [par |-> tsim.par,
                                                  ok |-> ok])]
  /\ UNCHANGED <<theta, Tp, W, TFields, status, TRest>>

\* lines 3352-3354 and 3373-3374 : the adaptive loop is entered, or mass is
\* solved once
transient_mass(HV) ==
  /\ TStep("mass")
  /\ IF TS.adaptive
       THEN /\ TS' = [TS EXCEPT !.pc = "h_test", !.solved_h = FALSE]
            /\ UNCHANGED <<tsim, t_obs>>
       ELSE /\ TS' = [TS EXCEPT !.pc = "energy"]
            /\ \E h \in HV : tsim' = [tsim EXCEPT !.H = h]
            /\ t_obs' = [t_obs EXCEPT !.h = Append(@,
                           [t |-> TS.t, dt |-> TS.dt, ok |-> TRUE])]
  /\ UNCHANGED <<fields, status, TRest>>

\* lines 3355-3358 : while not solved_h, and the floor of the time step
transient_h_test ==
  /\ TStep("h_test")
  /\ IF TS.solved_h
       THEN TS' = [TS EXCEPT !.pc = "energy"] /\ UNCHANGED t_obs
       ELSE IF TS.dt < DOLFIN_EPS
              THEN /\ TS' = [TS EXCEPT !.pc = "energy"]
                   /\ t_obs' = [t_obs EXCEPT !.floors = @ \cup {"dt"}]
              ELSE TS' = [TS EXCEPT !.pc = "h_solve"] /\ UNCHANGED t_obs
  /\ UNCHANGED <<fields, tsim, status, TRest>>

\* lines 3359-3371 : H is copied, mass.solve leaves any thickness of HV and
\* reports success or failure; up to t = 100 the step counts as solved; on
\* failure dt is halved, the model's time step follows and H is put back
transient_h_solve(HV) ==
  /\ TStep("h_solve")
  /\ \E h \in HV, ok \in BOOLEAN :
       LET solved_h == IF TS.t <= SpinUp THEN TRUE ELSE ok
       IN  /\ t_obs' = [t_obs EXCEPT !.h = Append(@,
                          [t |-> TS.t, dt |-> TS.dt, ok |-> ok])]
           /\ IF solved_h
                THEN /\ TS' = [TS EXCEPT !.pc = "h_test", !.solved_h = TRUE]
                     /\ tsim' = [tsim EXCEPT !.H = h]
                ELSE /\ TS' = [TS EXCEPT !.pc = "h_test",
                                         !.solved_h = FALSE,
                                         !.dt = Halved(@)]
                     /\ tsim' = [tsim EXCEPT !.time_step = Halved(TS.dt)]
  /\ UNCHANGED <<fields, status, TRest>>

\* lines 3386-3395 : energy.solve, the pressure-melting point, the callback
transient_energy(TV) ==
  /\ TStep("energy")
  /\ theta' \in TV
  /\ Tp' = partition_energy(theta').Tp
  /\ W' = partition_energy(theta').W
  /\ TS' = [TS EXCEPT !.pc = "advance"]
  /\ UNCHANGED <<U3, TFields, tsim, t_obs, status, TRest>>

\* variant: the relaxation parameter is put back, the time step is not
transient_advance_keepdt ==
  /\ TStep("advance")
  /\ TS' = [TS EXCEPT !.pc = "while", !.t = @ + TS.dt]
  /\ tsim' = IF TS.adaptive THEN [tsim EXCEPT !.par = TS.alpha] ELSE tsim
  /\ UNCHANGED <<fields, t_obs, status, TRest>>

\* lines 3401-3413 : t += dt, then the parameters are put back to normal
transient_advance ==
  /\ TStep("advance")
  /\ TS' = [TS EXCEPT !.pc = "while", !.t = @ + TS.dt,
                      !.dt = IF TS.adaptive THEN TS.time_step ELSE @]
  /\ tsim' = IF TS.adaptive
               THEN [tsim EXCEPT !.par = TS.alpha,
                                 !.time_step = IF TS.dt # TS.time_step
                                                 THEN TS.time_step ELSE @]
               ELSE tsim
  /\ UNCHANGED <<fields, t_obs, status, TRest>>

TransientStep(UV, HV, TV) ==
  \/ transient_enter
  \/ transient_while
  \/ transient_momentum(UV)
  \/ transient_u_test
  \/ transient_u_solve(UV)
  \/ transient_mass(HV)
  \/ transient_h_test
  \/ transient_h_solve(HV)
  \/ transient_energy(TV)
  \/ transient_advance

----------------------------------------------------------------------------
(* assign_variable and the init_ methods *)

\* the types assign_variable has a branch for (lines 2046-2076)
Supported == {"float", "int", "ndarray", "Expression", "Constant", "Function",
              "GenericVector", "str", "HDF5File"}

\* a value handed to an init_ method: its type, the nodal values it stands
\* for, and whether it has a name() method
Value(T, V) == [type : T, val : V, named : BOOLEAN]

NoInit == [op |-> "none", var |-> [type |-> "float", val |-> Const(0),
                                   named |-> FALSE],
           before |-> Const(0), dim |-> 0, bed |-> {}]

\* lines 1397-1403 : the velocity of the quotient, U_mag if it is given (a
\* field; None is << >>), else the observed velocity with its gaps filled
\* from the balance velocity, and not below eps
U_s(gm, Ubar, U_mag, eps) ==
  [d \in Dofs |->
     LET U_v == IF U_mag = << >>
                  THEN IF gm.U_mask[d] = 0 THEN Ubar[d] ELSE gm.U_ob[d]
                  ELSE U_mag[d]
     IN  IF U_v < eps THEN eps ELSE U_v]

\* lines 1404-1406 : rhoi*g*H*S_mag / U_s with H = S - B and
\* S_mag = sqrt(|grad S|^2 + DOLFIN_EPS)
beta_0(gm, slope, Us) ==
  [d \in Dofs |->
     (rhoi * g * (gm.S[d] - gm.B[d]) * ISqrt(slope[d] * slope[d] + DOLFIN_EPS))
       \div Us[d]]

\* line 1407 : beta_0_v[beta_0_v < 1e-2] = 1e-2
Floored(b) == [d \in Dofs |-> IF b[d] < BetaFloor THEN BetaFloor ELSE b[d]]

\* lines 2046-2087 : the values of var go into u; for any other type a
\* message is printed and the local name u is bound to var, which leaves the
\* field alone, and print_min_max(u, u.name()) then asks var for its name
assign_variable(u, var) ==
  IF var.type \in Supported
    THEN [u |-> var.val, status |-> "ok"]
    ELSE [u |-> u, status |-> IF var.named THEN "ok" ELSE "AttributeError"]

InitRest == <<out_dir, transient, mode, wop_bounds, files, tmcframe, steps,
              iters, caller, lcurve, timeloop, objects>>

\* lines 592-601
init_beta(Vals) ==
  /\ status = "ok"
  /\ script = "start"
  /\ \E v \in Vals :
       /\ beta' = assign_variable(beta, v).u
       /\ status' = assign_variable(beta, v).status
       /\ i_obs' = [NoInit EXCEPT !.op = "init_beta", !.var = v,
                                  !.before = beta]
  /\ UNCHANGED <<theta, alpha, Mb, Fb, Fb_min, Fb_max, U3, geom, Tp, W,
                 A_mom, InitRest>>

\* lines 570-579
init_Mb(Vals) ==
  /\ status = "ok"
  /\ script = "start"
  /\ \E v \in Vals :
       /\ Mb' = assign_variable(Mb, v).u
       /\ status' = assign_variable(Mb, v).status
       /\ i_obs' = [NoInit EXCEPT !.op = "init_Mb", !.var = v, !.before = Mb]
  /\ UNCHANGED <<theta, alpha, Fb, Fb_min, Fb_max, beta, U3, geom, Tp, W,
                 A_mom, InitRest>>

\* lines 1363-1419 without the floor of beta_0
init_beta_SIA_nofloor(Args) ==
  /\ status = "ok"
  /\ script = "start"
  /\ script' = "done"
  /\ \E a \in Args :
       LET betaSIA == beta_0(a.geom, a.slope, U_s(a.geom, a.Ubar, a.U_mag,
                                                   a.eps))
       IN  /\ geom' = a.geom
           /\ beta' = IF a.dim = 3
                        THEN [d \in Dofs |-> IF d \in a.bed THEN betaSIA[d]
                                                             ELSE DOLFIN_EPS]
                        ELSE IF a.dim = 2 THEN betaSIA ELSE beta
           /\ i_obs' = [NoInit EXCEPT !.op = "init_beta_SIA",
                                      !.before = beta, !.dim = a.dim,
                                      !.bed = a.bed]
  /\ UNCHANGED <<theta, alpha, Mb, Fb, Fb_min, Fb_max, U3, Tp, W, A_mom,
                 status, out_dir, transient, mode, wop_bounds, files,
                 tmcframe, steps, iters, linear, linear_s, A, tmc_kwargs,
                 a_steps, a_iters, given, lcurve, timeloop, objects>>

\* lines 1363-1419 : the script has set the geometry and the observations;
\* betaSIA is beta_0 floored at 1e-2; in three dimensions beta is DOLFIN_EPS
\* everywhere and then betaSIA on the dofs of the grounded bed, in two
\* dimensions beta is betaSIA
init_beta_SIA(Args) ==
  /\ status = "ok"
  /\ script = "start"
  /\ script' = "done"
  /\ \E a \in Args :
       LET betaSIA == Floored(beta_0(a.geom, a.slope,
                                     U_s(a.geom, a.Ubar, a.U_mag, a.eps)))
       IN  /\ geom' = a.geom
           /\ beta' = IF a.dim = 3
                        THEN [d \in Dofs |-> IF d \in a.bed THEN betaSIA[d]
                                                             ELSE DOLFIN_EPS]
                        ELSE IF a.dim = 2 THEN betaSIA ELSE beta
           /\ i_obs' = [NoInit EXCEPT !.op = "init_beta_SIA",
                                      !.before = beta, !.dim = a.dim,
                                      !.bed = a.bed]
  /\ UNCHANGED <<theta, alpha, Mb, Fb, Fb_min, Fb_max, U3, Tp, W, A_mom,
                 status, out_dir, transient, mode, wop_bounds, files,
                 tmcframe, steps, iters, linear, linear_s, A, tmc_kwargs,
                 a_steps, a_iters, given, lcurve, timeloop, objects>>

----------------------------------------------------------------------------
(* The script that owns the model and calls a driver *)

\* the logs an earlier run left under the output directory: none, or k lines
PriorLog(k) == [i \in 1..k |-> 10 + i]

PriorFiles ==
  {[p \in {} |-> << >>]} \cup
  {[p \in {"out/tmc/convergence_history/abs_err.txt",
           "out/tmc/convergence_history/theta_norm.txt",
           "out/convergence_history/abs_err.txt",
           "out/convergence_history/beta_norm.txt"} |-> PriorLog(k)] :
     k \in 1..MaxPrior}

Init ==
  /\ out_dir = "out/"
  /\ theta = Const(0) /\ alpha = Const(0) /\ Mb = Const(0)
  /\ Fb = Const(0) /\ Fb_min = Const(0) /\ Fb_max = Const(0)
  /\ beta = Const(0) /\ U3 = Const(0)
  /\ Tp = Const(0) /\ W = Const(0)
  /\ A_mom = RateFactor(Const(0), Const(0), Const(1))
  /\ geom = [S |-> Const(1000), B |-> Const(0), E |-> Const(1),
             mask |-> Const(1), U_mask |-> Const(1), U_ob |-> Const(100)]
  /\ transient = TRUE
  /\ mode = "zero_energy"
  /\ wop_bounds = NoBounds
  /\ files \in PriorFiles
  /\ pc = "none"
  /\ atol = 0 /\ rtol = 0 /\ max_iter = 0 /\ starting_i = 0
  /\ out_dir_i = "" /\ d_hist = "" /\ n_i = 0 /\ bounds = NoBounds
  /\ abs_error = 0 /\ rel_error = 0 /\ counter = 0
  /\ U_prev = Const(0) /\ abs_error_n = 0 /\ tht_nrm = 0
  /\ steps = << >> /\ iters = << >>
  /\ linear = FALSE
  /\ linear_s = FALSE
  /\ A = AIdle
  /\ tmc_kwargs = [atol |-> 0, rtol |-> 0, max_iter |-> 0, starting_i |-> 0]
  /\ a_steps = << >> /\ a_iters = << >>
  /\ given = [mode |-> "zero_energy", bounds |-> NoBounds]
  /\ script = "start"
  /\ status = "ok"
  /\ physics = Built /\ control = 0
  /\ L = LIdle /\ l_obs = LObs0
  /\ tsim = [par |-> RelaxDefault, time_step |-> 0, H |-> 0]
  /\ TS = TIdle /\ t_obs = TObs0
  /\ objects = Proper
  /\ i_obs = NoInit

\* model.thermo_solve(momentum, energy, wop_kwargs, atol, rtol, max_iter,
\*                    starting_i = s) with an energy object and a wop_kwargs
CallThermoWith(Args, En, Obj) ==
  /\ objects' \in Obj
  /\ UNCHANGED <<lcurve, timeloop, i_obs>>
  /\ status = "ok"
  /\ script = "start"
  /\ script' = "thermo_solve"
  /\ \E kw \in Args : ThermoCall(kw)
  /\ \E e \in En : mode' = e.mode /\ wop_bounds' = e.bounds /\ given' = e
  /\ UNCHANGED <<out_dir, fields, transient, files,
                 linear, linear_s, A, tmc_kwargs, a_steps, a_iters, status>>

\* the same with a momentum and an energy object of the right classes
CallThermo(Args, En) == CallThermoWith(Args, En, {Proper})

\* thermo_solve returns to the script
ThermoReturn ==
  /\ UNCHANGED sweep
  /\ status = "ok"
  /\ script = "thermo_solve"
  /\ script' = "done"
  /\ ThermoReturned
  /\ UNCHANGED <<out_dir, fields, transient, mode, wop_bounds, files,
                 linear, linear_s, A, tmc_kwargs, a_steps, a_iters, given,
                 status>>

\* model.assimilate_U_ob(momentum, beta_i, max_iter, tmc_kwargs, uop_kwargs,
\*                       atol, rtol, initialize, incomplete, starting_i = s)
\* with a momentum object and, in tmc_kwargs, an energy object
CallAssimilateWith(Args, Kw, En, Mo, Obj) ==
  /\ objects' \in Obj
  /\ UNCHANGED <<lcurve, timeloop, i_obs>>
  /\ status = "ok"
  /\ script = "start"
  /\ script' = "assimilate_U_ob"
  /\ \E a \in Args :
       A' = [A EXCEPT !.pc = "enter", !.atol = a.atol, !.rtol = a.rtol,
                      !.max_iter = a.max_iter, !.starting_i = a.starting_i,
                      !.initialize = a.initialize,
                      !.incomplete = a.incomplete, !.save = a.save,
                      !.beta_i = a.beta_i]
  /\ tmc_kwargs' \in Kw
  /\ \E e \in En : mode' = e.mode /\ wop_bounds' = e.bounds /\ given' = e
  /\ linear' \in Mo
  /\ linear_s' = linear'
  /\ UNCHANGED <<out_dir, fields, transient, files, tmcframe, steps, iters,
                 a_steps, a_iters, status>>

\* the same with objects of the right classes
CallAssimilate(Args, Kw, En, Mo) ==
  CallAssimilateWith(Args, Kw, En, Mo, {Proper})

ThermoStep(TV, AV, MV, UV, FV) ==
  \/ thermo_enter
  \/ thermo_while
  \/ thermo_set_out_dir
  \/ thermo_momentum_solve(UV)
  \/ thermo_calc_T_melt
  \/ thermo_calc_q_fric
  \/ thermo_calc_basal_temperature_flux
  \/ thermo_calc_basal_temperature_melting_flux
  \/ thermo_derive_temperate_zone(AV)
  \/ thermo_update_thermal_parameters
  \/ thermo_solve_basal_melt_rate(MV)
  \/ thermo_init_Fb
  \/ thermo_update_bounds
  \/ thermo_optimize_water_flux(FV)
  \/ thermo_energy_solve(TV)
  \/ thermo_norms
  \/ thermo_history
  \/ thermo_update
  \/ thermo_reset_dir
  \/ thermo_reset_bounds
  \/ thermo_plot

BetaVals == 0..MaxBeta

Uniform(V) == {Const(v) : v \in V}

Bounds == [kind : {"values"}, lo : LowerVals, hi : UpperVals]

ThermoArgs ==
  [atol : TolVals, rtol : TolVals, max_iter : IterVals, starting_i : StartVals]

Energies == [mode : Modes, bounds : Bounds]

AssimArgs ==
  [atol : TolVals, rtol : {0}, max_iter : IterVals,
   starting_i : StartVals, initialize : BOOLEAN, incomplete : BOOLEAN,
   save : BOOLEAN, beta_i : {MaxBeta}]

\* the tmc_kwargs handed to assimilate_U_ob: a single pass
TmcKwargs == {[atol |-> 0, rtol |-> 0, max_iter |-> 1, starting_i |-> 1]}

\* both drivers, with fields that the solvers leave uniform
Next ==
  \/ CallThermo(ThermoArgs, {e \in Energies : e.bounds.lo = 0})
  \/ ThermoReturn
  \/ CallAssimilate(AssimArgs, TmcKwargs,
                    {e \in Energies : e.bounds.lo = 0 /\ e.bounds.hi = 5000},
                    BOOLEAN)
  \/ ThermoStep(Uniform(ThetaVals), Uniform({1}), Uniform({1000}),
                Uniform({0}), {0})
  \/ AssimStep(Uniform(BetaVals))

Spec == Init /\ [][Next]_vars

\* thermo_solve alone, with every temperate zone and melt rate
NextFb ==
  \/ CallThermo([atol : {0}, rtol : {0}, max_iter : IterVals,
                 starting_i : {1}], Energies)
  \/ ThermoReturn
  \/ ThermoStep(Uniform(ThetaVals), [Dofs -> AlphaVals], [Dofs -> MbVals],
                Uniform({0}), {0, DOLFIN_EPS, 500})

SpecFb == Init /\ [][NextFb]_vars

\* thermo_solve with solvers that may raise
NextRaise ==
  \/ CallThermo([atol : {0}, rtol : {0}, max_iter : IterVals,
                 starting_i : {1}], Energies)
  \/ ThermoReturn
  \/ ThermoStep(Uniform(ThetaVals), Uniform({1}), Uniform({1000}),
                Uniform({0}), {0})
  \/ thermo_solver_raises

SpecRaise == Init /\ [][NextRaise]_vars

\* a restart of assimilate_U_ob at iteration RestartStart of RestartIter, with
\* an inversion that moves beta in every iteration
ZeroEnergy == {e \in Energies : e.mode = "zero_energy" /\ e.bounds.lo = 0
                                  /\ e.bounds.hi = 5000}

NextRestart ==
  \/ CallAssimilate([atol : {0}, rtol : {0}, max_iter : {RestartIter},
                     starting_i : {RestartStart}, initialize : BOOLEAN,
                     incomplete : {FALSE}, save : {TRUE}, beta_i : {0}],
                    TmcKwargs, ZeroEnergy, {FALSE})
  \/ ThermoStep(Uniform({0}), Uniform({1}), Uniform({1000}), Uniform({0}),
                {0})
  \/ AssimStep(Uniform(0..MaxRestartBeta))

SpecRestart == Init /\ [][NextRestart]_vars

\* both drivers with max_iter up to MaxPadIter, and a hundred, run for the one
\* iteration numbered starting_i: the solvers leave theta and beta as they are
PadIters == (1..MaxPadIter) \cup {100}

PadArgs ==
  {a \in [atol : {0}, rtol : {0}, max_iter : PadIters,
          starting_i : 0..100] : a.starting_i <= a.max_iter}

PadAssimArgs ==
  {a \in [atol : {0}, rtol : {0}, max_iter : PadIters, starting_i : 0..100,
          initialize : BOOLEAN, incomplete : {FALSE}, save : {FALSE},
          beta_i : {MaxBeta}] : a.starting_i <= a.max_iter}

NextPad ==
  \/ CallThermo(PadArgs, ZeroEnergy)
  \/ ThermoReturn
  \/ CallAssimilate(PadAssimArgs, TmcKwargs, ZeroEnergy, {FALSE})
  \/ ThermoStep(Uniform({0}), Uniform({1}), Uniform({1000}), Uniform({0}),
                {0})
  \/ AssimStep(Uniform({MaxBeta}))

SpecPad == Init /\ [][NextPad]_vars

\* the weights of a sweep, in hundredths: 0.01, 1.00, 1.04 and 10.0
AlphaGrid == {1, 100, 104, 1000}

\* the lists of up to MaxAlphas distinct weights
Sweeps ==
  {s \in UNION {[1..n -> AlphaGrid] : n \in 1..MaxAlphas} :
     \A i, j \in DOMAIN s : s[i] = s[j] => i = j}

\* a physics object the script has solved with before the sweep
Solved == << [op |-> "solve", I |-> 0] >>

LCurveArgs ==
  [alphas : Sweeps, physics : {Built, Solved}, control : 0..MaxControl,
   pre_callback : BOOLEAN, post_callback : BOOLEAN, itr_save_vars : BOOLEAN]

\* model.L_curve(alphas, control, physics, J, R, adj_kwargs, pre_callback,
\*               post_callback, itr_save_vars)
CallLCurveIn(Args, Left) ==
  /\ \E old \in Left : files' = old @@ files
  /\ status = "ok"
  /\ script = "start"
  /\ script' = "L_curve"
  /\ \E a \in Args :
       /\ L' = [LIdle EXCEPT !.pc = "enter", !.alphas = a.alphas,
                             !.pre_callback = a.pre_callback,
                             !.post_callback = a.post_callback,
                             !.itr_save_vars = a.itr_save_vars]
       /\ physics' = a.physics
       /\ control' = a.control
       /\ l_obs' = [LObs0 EXCEPT !.start = [physics |-> a.physics,
                                            control |-> a.control]]
  /\ UNCHANGED <<out_dir, fields, transient, mode, wop_bounds,
                 tmcframe, steps, iters, linear, linear_s, A, tmc_kwargs,
                 a_steps, a_iters, given, status, timeloop, passed>>

\* the same in a base directory that holds nothing of an earlier sweep
CallLCurve(Args) == CallLCurveIn(Args, {<< >>})

\* L_curve returns to the script
LCurveReturn ==
  /\ status = "ok"
  /\ script = "L_curve"
  /\ L.pc = "done"
  /\ script' = "done"
  /\ L' = [L EXCEPT !.pc = "none"]
  /\ UNCHANGED <<out_dir, files, fields, transient, mode, wop_bounds,
                 tmcframe, steps, iters, linear, linear_s, A, tmc_kwargs,
                 a_steps, a_iters, given, status, physics, control, l_obs,
                 timeloop, passed>>

NextSweep ==
  \/ CallLCurve(LCurveArgs)
  \/ LCurveStep(0..MaxControl)
  \/ LCurveReturn

SpecSweep == Init /\ [][NextSweep]_vars

\* a sweep in a base directory where an earlier sweep, with the weight 10.0
\* or with none, has left its directory
Leftover == Trace("out/" \o AlphaDir(1000)) :> << MaxControl + 1 >>

NextCollect ==
  \/ CallLCurveIn([alphas : Sweeps, physics : {Built}, control : {0},
                   pre_callback : {FALSE}, post_callback : {FALSE},
                   itr_save_vars : {FALSE}], {<< >>, Leftover})
  \/ LCurveStep(0..MaxControl)
  \/ LCurveReturn

SpecCollect == Init /\ [][NextCollect]_vars

\* the time steps and the relaxation parameters a script asks for
StepVals  == {1} \cup {2 * k : k \in 1..MaxStep}
RelaxVals == {150, 300, RelaxDefault}

TransientArgs ==
  [classes : {"ok", "momentum", "energy", "mass"}, adaptive : BOOLEAN,
   t_start : {SpinUp - 1, SpinUp + 1},
   span : 0..MaxSpan, time_step : StepVals, par : RelaxVals, H : 0..MaxH]

\* model.transient_solve(momentum, energy, mass, t_start, t_end, time_step,
\*                       adaptive, annotate, callback)
CallTransient(Args) ==
  /\ status = "ok"
  /\ script = "start"
  /\ script' = "transient_solve"
  /\ \E a \in Args :
       /\ TS' = [TIdle EXCEPT !.pc = "enter", !.classes = a.classes,
                              !.adaptive = a.adaptive, !.t = a.t_start,
                              !.t_end = a.t_start + a.span,
                              !.time_step = a.time_step]
       /\ tsim' = [tsim EXCEPT !.par = a.par, !.H = a.H]
       /\ t_obs' = [TObs0 EXCEPT !.entry = a.par]
  /\ UNCHANGED <<out_dir, files, fields, transient, mode, wop_bounds,
                 tmcframe, steps, iters, linear, linear_s, A, tmc_kwargs,
                 a_steps, a_iters, given, status, lcurve, passed>>

\* transient_solve returns to the script
TransientReturn ==
  /\ status = "ok"
  /\ script = "transient_solve"
  /\ TS.pc = "done"
  /\ script' = "done"
  /\ TS' = [TS EXCEPT !.pc = "none"]
  /\ UNCHANGED <<out_dir, files, fields, transient, mode, wop_bounds,
                 tmcframe, steps, iters, linear, linear_s, A, tmc_kwargs,
                 a_steps, a_iters, given, status, lcurve, tsim, t_obs,
                 passed>>

NextTransient ==
  \/ CallTransient(TransientArgs)
  \/ TransientStep(Uniform({0}), 0..MaxH, Uniform({0}))
  \/ TransientReturn

SpecTransient == Init /\ [][NextTransient]_vars

\* the classes of the objects a script may pass
Classes == {"Momentum", "Energy", "object"}

Passed == [momentum : Classes, energy : Classes, a_momentum : Classes]

NextClasses ==
  \/ CallThermoWith([atol : {0}, rtol : {0}, max_iter : {1},
                     starting_i : {1}], ZeroEnergy, Passed)
  \/ ThermoReturn
  \/ CallAssimilateWith([atol : {0}, rtol : {0}, max_iter : {1},
                         starting_i : {1}, initialize : BOOLEAN,
                         incomplete : BOOLEAN, save : {FALSE},
                         beta_i : {MaxBeta}],
                        TmcKwargs, ZeroEnergy, {FALSE}, Passed)
  \/ ThermoStep(Uniform({1}), Uniform({1}), Uniform({1000}), Uniform({1}),
                {0})
  \/ AssimStep(Uniform({MaxBeta}))
  \/ CallTransient({a \in TransientArgs :
                      /\ a.t_start = SpinUp + 1 /\ a.span = 0
                      /\ a.time_step = 1 /\ a.par = RelaxDefault
                      /\ a.H = 0})
  \/ TransientStep(Uniform({1}), {MaxH}, Uniform({1}))
  \/ TransientReturn

SpecClasses == Init /\ [][NextClasses]_vars

\* the types of the values a script may hand to an init_ method
Types == Supported \cup {"list", "NoneType", "Mesh"}

NextInit ==
  \/ init_beta(Value(Types, Uniform(0..MaxBeta)))
  \/ init_Mb(Value(Types, Uniform(MbVals)))

SpecInit == Init /\ [][NextInit]_vars

\* the geometries and velocities of the SIA initialisation: flat and sloping
\* surfaces, no ice, thin and thick ice, no velocity, gaps in the observation
SIAGeoms ==
  [S : Uniform({1, 10}), B : Uniform({0, 1}), E : {Const(1)},
   mask : {Const(1)}, U_mask : [Dofs -> {0, 1}], U_ob : Uniform({0, 1000})]

SIAArgs ==
  [geom : SIAGeoms, slope : Uniform({0, MaxSlope}), Ubar : Uniform({0, 50}),
   U_mag : {<< >>, Const(0), Const(9100)}, eps : {1}, dim : {2, 3},
   bed : SUBSET Dofs]

NextSIA == init_beta_SIA(SIAArgs)

SpecSIA == Init /\ [][NextSIA]_vars

----------------------------------------------------------------------------
(* Properties of thermo_solve and assimilate_U_ob *)

IsPrefix(s, t) == Len(s) <= Len(t) /\ \A k \in 1..Len(s) : s[k] = t[k]

\* the positions of thermo_solve inside an iteration, after set_out_dir
InIteration ==
  pc \in {"momentum_solve", "calc_T_melt", "calc_q_fric", "calc_btf",
          "calc_btmf", "derive_tz", "update_tp", "solve_Mb", "init_Fb",
          "update_bounds", "optimize", "energy_solve", "norms", "history",
          "update"}

\* C1: in every iteration of thermo_solve the calls are made in the order
\* set_out_dir, momentum.solve, calc_T_melt, calc_q_fric, the two basal
\* temperature fluxes, derive_temperate_zone, update_thermal_parameters,
\* solve_basal_melt_rate, Fb := Mb*rhoi/rhow, in Fb mode the Fb_max update and
\* optimize_water_flux, and energy.solve last, each exactly once.
C1_IterationOrder ==
  /\ IsPrefix(steps, IterationCalls(mode))
  /\ pc \in {"norms", "history", "update"} => steps = IterationCalls(mode)
  /\ pc = "update_bounds" => Fb = ZeroEnergyFlux(Mb)

C1_Witness ==
  pc = "norms" /\ mode = "Fb" /\ Len(iters) = 2 /\ Len(steps) = 13

\* C2: thermo_solve starts another iteration if and only if none of
\* abs_err < atol, rel_err < rtol, counter > max_iter holds.
C2_StopIffStrictlyBelow ==
  LET stop == abs_error < atol \/ rel_error < rtol \/ counter > max_iter
  IN  /\ pc = "set_out_dir" => ~stop
      /\ pc = "reset_dir" => stop

\* C3: in Fb mode, when optimize_water_flux is called, Fb_max is machine
\* epsilon on every dof with alpha = 0 and the upper bound the caller passed
\* on every dof with alpha = 1.
C3_FbMask ==
  (pc = "optimize" /\ mode = "Fb") =>
    \A d \in Dofs :
      /\ alpha[d] = 0 => Fb_max[d] = DOLFIN_EPS
      /\ alpha[d] = 1 => Fb_max[d] = given.bounds.hi

C3_Witness ==
  /\ pc = "optimize" /\ mode = "Fb" /\ Len(iters) = 2
  /\ \E d \in Dofs : alpha[d] = 0
  /\ \E d \in Dofs : alpha[d] = 1

C5_FirstExecutedIteration ==
  (pc = "update" /\ Len(iters) = 1) => rel_error = abs_error_n

\* C5: the iteration numbered 1 sets the relative residual to its absolute
\* residual; the first iteration of a restart (starting_i > 1) sets it to
\* |inf - abs_err| = inf; every later iteration sets it to
\* |abs_err of the previous iteration - abs_err of this iteration|.
C5_RelativeResidual ==
  pc = "update" =>
    /\ counter = 1 => rel_error = abs_error_n
    /\ (counter > 1 /\ Len(iters) = 1) => rel_error = Inf
    /\ Len(iters) > 1 =>
         /\ abs_error # Inf
         /\ rel_error = (IF abs_error >= abs_error_n
                           THEN abs_error - abs_error_n
                           ELSE abs_error_n - abs_error)

C5_Witness ==
  /\ pc = "update" /\ Len(iters) = 2 /\ abs_error = 1 /\ abs_error_n = 0
  /\ rel_error = 1

C5_WitnessRestart ==
  pc = "update" /\ Len(iters) = 1 /\ counter = 2 /\ rel_error = Inf

\* the iterations of a loop are numbered from max(starting_i, 1) on, one by
\* one, and none is numbered above max_iter
Max(a, b) == IF a >= b THEN a ELSE b

Consecutive(seq, start, last) ==
  /\ \A k \in 1..Len(seq) : seq[k] = Max(start, 1) + k - 1 /\ seq[k] <= last
  /\ Len(seq) <= Max(0, last - Max(start, 1) + 1)

\* C6: thermo_solve and assimilate_U_ob execute the iterations numbered
\* max(starting_i, 1), max(starting_i, 1) + 1, ... one by one and none above
\* max_iter, so at most max(0, max_iter - max(starting_i, 1) + 1) iterations.
C6_BoundedIterations ==
  /\ pc \notin {"none", "enter"} => Consecutive(iters, starting_i, max_iter)
  /\ A.pc \notin {"none", "enter"} =>
       Consecutive(a_iters, A.starting_i, A.max_iter)
  /\ pc = "while" => counter = Max(starting_i, 1) + Len(iters)
  /\ A.pc = "while" => A.counter = Max(A.starting_i, 1) + Len(a_iters)

C6_Witness ==
  /\ A.pc = "tmc_wait" /\ a_iters = << 1, 2 >> /\ A.max_iter = 2
  /\ pc = "reset_dir" /\ iters = << 1 >> /\ max_iter = 1

C6_WitnessThermo ==
  /\ script = "thermo_solve" /\ pc = "reset_dir" /\ iters = << 1, 2 >>
  /\ LoopCond(abs_error, rel_error, 1, atol, rtol, 1)

\* the output directory thermo_solve was entered with
EntryDir ==
  IF script = "thermo_solve" THEN "out/"
  ELSE IF A.pc = "ini_wait" THEN A.out_dir_i \o "initialization/"
  ELSE A.out_dir_i \o ZeroPad(A.n_i, A.counter) \o "/"

\* C7: when thermo_solve returns, the output directory is the one it was
\* entered with; during iteration i it is that directory + 'tmc/<i>/'.
C7_OutDirRestored ==
  /\ pc = "return" => out_dir = EntryDir
  /\ InIteration =>
       out_dir = EntryDir \o "tmc/" \o ZeroPad(Len(str(max_iter)), counter)
                          \o "/"

C7_Witness ==
  script = "thermo_solve" /\ pc = "return" /\ Len(iters) = 2

C7_WitnessNoIteration ==
  script = "thermo_solve" /\ pc = "return" /\ iters = << >>

\* the step that writes the logs of a loop: the log directory, the names of
\* the two logs, the iteration number and the two values
ThermoLogging == status = "ok" /\ pc = "history"
AssimLogging  == status = "ok" /\ pc = "none" /\ A.pc = "history"

\* C8 as stated: the convergence logs are append-only: an iteration adds a
\* line to each and no earlier line is removed or changed.
C8_AppendOnly ==
  [][ \A p \in DOMAIN files :
        p \in DOMAIN files' /\ IsPrefix(files[p], files'[p]) ]_vars

\* C8: an iteration numbered above 1 appends one line to each of the two
\* logs of its loop and leaves their earlier lines unchanged; an iteration
\* numbered 1 replaces each of the two logs by its single line; no other
\* file and no other step changes a log.
LoggedBy(fs, fs2, dir, log2, c, v1, v2) ==
  LET p1 == dir \o "abs_err.txt"
      p2 == dir \o log2
  IN  /\ DOMAIN fs2 = DOMAIN fs \cup {p1, p2}
      /\ \A p \in DOMAIN fs \ {p1, p2} : fs2[p] = fs[p]
      /\ c = 1 => fs2[p1] = << v1 >> /\ fs2[p2] = << v2 >>
      /\ c > 1 => fs2[p1] = Append(fs[p1], v1) /\ fs2[p2] = Append(fs[p2], v2)

C8_Logs ==
  [][ /\ (ThermoLogging /\ status' = "ok") =>
           LoggedBy(files, files', d_hist, "theta_norm.txt", counter,
                    abs_error_n, tht_nrm)
      /\ (AssimLogging /\ status' = "ok") =>
           LoggedBy(files, files', A.d_hist, "beta_norm.txt", A.counter,
                    A.abs_error_n, A.beta_nrm)
      /\ (~ThermoLogging /\ ~AssimLogging) => files' = files
    ]_vars

C8_Witness ==
  /\ script = "thermo_solve" /\ pc = "update" /\ counter = 2
  /\ Len(files[d_hist \o "abs_err.txt"]) = 2
  /\ files[d_hist \o "abs_err.txt"][1] = 11

C8_WitnessAssim ==
  /\ A.pc = "update" /\ A.counter = 2
  /\ Len(files[A.d_hist \o "beta_norm.txt"]) = 2

\* the statements of the drivers themselves, as opposed to the calls of the
\* Momentum and Energy methods
ThermoStatement ==
  pc \in {"enter", "while", "set_out_dir", "init_Fb", "update_bounds",
          "norms", "history", "update", "reset_dir", "reset_bounds", "plot",
          "return"}

AssimStatement ==
  pc = "none" /\ A.pc \notin {"none", "optimize_U_ob"}

\* C9: the drivers' own statements never write S, B, E, the masks or the
\* observed velocities; thermo_solve never writes beta; the only fields its
\* statements assign are Fb, Fb_min and Fb_max, and beta is the only field
\* the statements of assimilate_U_ob assign.
C9_Frame ==
  [][ /\ (ThermoStatement \/ AssimStatement) => geom' = geom
      /\ pc # "none" => beta' = beta
      /\ ThermoStatement => <<theta, alpha, Mb, U3>>' = <<theta, alpha, Mb, U3>>
      /\ AssimStatement =>
           <<theta, alpha, Mb, U3, Fb, Fb_min, Fb_max>>' =
             <<theta, alpha, Mb, U3, Fb, Fb_min, Fb_max>>
    ]_vars

C9_Witness ==
  /\ script = "assimilate_U_ob" /\ pc = "optimize" /\ Len(a_iters) = 2
  /\ Fb # Const(0) /\ Fb_max # Const(0) /\ beta # Const(0)

\* Fb_min <= Fb <= Fb_max at every dof
FbWithinBounds == \A d \in Dofs : Fb_min[d] <= Fb[d] /\ Fb[d] <= Fb_max[d]

\* the moment energy.solve is called, and the end of an iteration
AtSolveOrBoundary ==
  \/ pc \in {"energy_solve", "norms", "history", "update"}
  \/ pc = "while" /\ iters # << >>

RateFactorOf(th) ==
  RateFactor(partition_energy(th).Tp, partition_energy(th).W, geom.E)

AssimIterationCalls(incomplete, lin_s, reseed, save, dir) ==
  << "set_out_dir" >>
  \o (IF incomplete /\ ~lin_s THEN << "momentum.linearize_viscosity" >>
                               ELSE << >>)
  \o (IF reseed THEN << "init_beta" >> ELSE << >>)
  \o << "momentum.optimize_U_ob" >>
  \o (IF incomplete /\ ~lin_s THEN << "momentum.reset" >> ELSE << >>)
  \o << "thermo_solve", "norm", "history" >>
  \o (IF save THEN << dir \o "inverted.h5" >> ELSE << >>)

\* the calls before the loop
AssimEntryCalls(initialize) ==
  << "init_beta" >>
  \o (IF initialize THEN << "thermo_solve", "post_ini_callback" >> ELSE << >>)

AssimInLoop ==
  A.pc \in {"linearize", "reseed", "optimize_U_ob", "reset", "tmc",
            "tmc_wait", "history", "save", "update"}

\* C12: assimilate_U_ob first sets beta := beta_i and beta_prev := beta; with
\* initialize it then makes exactly one thermo_solve in 'initialization/'
\* followed by post_ini_callback, whatever starting_i, and none without; every
\* outer iteration i makes, in this order, set_out_dir('<i>/'),
\* linearize_viscosity (if applicable), init_beta (if i > starting_i),
\* optimize_U_ob, reset (if applicable), thermo_solve, the norms, the history,
\* the save of inverted.h5 (if asked for), and only then beta_prev := beta.
C12_AssimOrder ==
  /\ A.pc = "initialize" => beta = Const(A.beta_i) /\ A.beta_prev = beta
  /\ A.pc \in {"initialize", "ini_tmc", "ini_wait", "bounds"} =>
       IsPrefix(a_steps, AssimEntryCalls(A.initialize))
  /\ A.pc = "bounds" => a_steps = AssimEntryCalls(A.initialize)
  /\ A.pc = "ini_wait" => EntryDir = A.out_dir_i \o "initialization/"
  /\ AssimInLoop =>
       LET calls == AssimIterationCalls(
                      A.incomplete, linear_s, A.counter > A.starting_i, A.save,
                      A.out_dir_i \o ZeroPad(A.n_i, A.counter) \o "/")
       IN  /\ IsPrefix(a_steps, calls)
           /\ A.pc = "update" => a_steps = calls
           /\ Len(a_iters) = 1 => A.beta_prev = Const(A.beta_i)
  /\ (A.pc = "while" /\ a_iters # << >>) => A.beta_prev = beta

C12_Witness ==
  /\ A.pc = "update" /\ a_iters = << 1, 2 >> /\ A.initialize /\ A.save
  /\ A.incomplete /\ ~linear_s /\ Len(a_steps) = 9

\* C13: whenever assimilate_U_ob calls momentum.optimize_U_ob, beta is the
\* initial guess beta_i at every dof: in the first executed iteration, where
\* beta is re-seeded only if starting_i < 1, and in every later one, with or
\* without the initialization step.
C13_SameGuess ==
  (pc = "none" /\ A.pc = "optimize_U_ob") => beta = Const(A.beta_i)

C13_Witness ==
  /\ pc = "none" /\ A.pc = "optimize_U_ob" /\ a_iters = << 1, 2 >>
  /\ A.beta_prev # Const(A.beta_i) /\ beta = Const(A.beta_i)

C13_WitnessRestart ==
  /\ pc = "none" /\ A.pc = "optimize_U_ob" /\ a_iters = << 2 >>
  /\ A.initialize /\ a_steps = << "set_out_dir" >>
  /\ beta = Const(A.beta_i)

\* the outer iterations from RestartStart to RestartIter
RestartIters == [k \in 1..(RestartIter - RestartStart + 1) |->
                   RestartStart + k - 1]

\* an outer iteration of assimilate_U_ob, outside its thermo_solve
AssimOuter == script = "assimilate_U_ob" /\ pc = "none" /\ AssimInLoop

\* the residuals at the end of the loop are still above the tolerances
NeverMet ==
  A.pc = "plot" /\ status = "ok" /\ A.abs_error > A.atol
                /\ A.rel_error > A.rtol

\* C14 as stated: with starting_i = 3 and max_iter = 5 the directories of the
\* outer iterations are '03/', '04/' and '05/'.
C14_PaddedDirs ==
  AssimOuter => out_dir = "out/0" \o Digit[A.counter + 1] \o "/"

\* C14: with starting_i = 3, max_iter = 5 and tolerances that are never met,
\* assimilate_U_ob executes exactly the outer iterations 3, 4, 5 in that
\* order, and their directories are '3/', '4/' and '5/': the width of the
\* name is the number of digits of max_iter, which is 1.
C14_RestartDirs ==
  /\ AssimOuter => out_dir = "out/" \o Digit[A.counter + 1] \o "/"
  /\ AssimOuter => IsPrefix(a_iters, RestartIters)
  /\ NeverMet => a_iters = RestartIters

C14_Witness ==
  /\ NeverMet /\ a_iters = << 3, 4, 5 >> /\ A.initialize
  /\ out_dir = "out/5/"

\* the least k with 10^k >= n : ceil(log10(n)) for n >= 1
CeilLog10(n) == CHOOSE k \in 0..n : Pow10(k) >= n /\ (k = 0 \/ Pow10(k - 1) < n)

\* the number of decimal digits of n >= 1 : floor(log10(n)) + 1
RECURSIVE NumDigits(_)
NumDigits(n) == IF n < 10 THEN 1 ELSE 1 + NumDigits(n \div 10)

\* the name of the iteration subdirectory in use: the output directory is
\* the directory of the driver's entry followed by it
ThermoIterName(name) == out_dir = EntryDir \o "tmc/" \o name \o "/"
AssimIterName(name)  == out_dir = A.out_dir_i \o name \o "/"

\* C15 as stated: the iteration subdirectory of both drivers is the index
\* zero-padded to width ceil(log10(max_iter)).
C15_WidthCeilLog10 ==
  /\ InIteration => ThermoIterName(ZeroPad(CeilLog10(max_iter), counter))
  /\ AssimOuter =>
       AssimIterName(ZeroPad(CeilLog10(A.max_iter), A.counter))

\* C15: for every max_iter >= 1 and every index i <= max_iter the iteration
\* subdirectory of assimilate_U_ob ('<i>/') and of thermo_solve ('tmc/<i>/')
\* is the decimal index i zero-padded to the number of decimal digits of
\* max_iter, floor(log10(max_iter)) + 1, which is ceil(log10(max_iter)) except
\* when max_iter is a power of ten.
C15_WidthDigits ==
  /\ InIteration =>
       /\ ThermoIterName(ZeroPad(NumDigits(max_iter), counter))
       /\ Len(out_dir) = Len(EntryDir) + 4 + NumDigits(max_iter) + 1
  /\ AssimOuter =>
       /\ AssimIterName(ZeroPad(NumDigits(A.max_iter), A.counter))
       /\ Len(out_dir) = Len(A.out_dir_i) + NumDigits(A.max_iter) + 1
  /\ \A n \in PadIters :
       NumDigits(n) = (IF Pow10(CeilLog10(n)) = n THEN CeilLog10(n) + 1
                                                 ELSE CeilLog10(n))

C15_Witness ==
  /\ script = "thermo_solve" /\ pc = "norms" /\ max_iter = 10 /\ counter = 5
  /\ out_dir = "out/tmc/05/"

C15_WitnessAssim ==
  /\ AssimOuter /\ A.pc = "history" /\ A.max_iter = 100 /\ A.counter = 7
  /\ out_dir = "out/007/"

----------------------------------------------------------------------------
(* L_curve : the reset before each weight *)

\* physics.optimize is about to be called for the weight of the current step
AtOptimize == script = "L_curve" /\ L.pc = "optimize"

\* the calls of the current step made before physics.optimize
ResetCalled ==
  \E k \in DOMAIN l_obs.steps : l_obs.steps[k] = "physics.reset"

\* C16 as stated: whenever physics.optimize is about to be called for a
\* weight of the sweep, the first one included, physics.reset() has been
\* called for that step and the control equals the snapshot taken at the
\* start of the sweep.
C16_ResetEveryStep ==
  AtOptimize => ResetCalled /\ control = L.control_ini

\* C16 amended: whenever physics.optimize is about to be called, the control
\* equals the snapshot; for every weight after the first, physics.reset() and
\* then the restore of the control have been called for that step and the
\* physics is as built; for the first weight neither has been called and the
\* physics is as the caller left it.
C16_ResetAfterFirst ==
  AtOptimize =>
    /\ control = L.control_ini
    /\ L.control_ini = l_obs.start.control
    /\ L.i > 0 =>
         /\ l_obs.steps = << "physics.reset", "assign_variable",
                             "set_out_dir" >>
                           \o (IF L.pre_callback THEN << "pre_callback" >>
                                                 ELSE << >>)
         /\ physics = Built
    /\ L.i = 0 =>
         /\ ~ResetCalled
         /\ physics = l_obs.start.physics

\* the second weight is about to be optimized for, after the optimization for
\* the first one left another control than the snapshot
C16_Witness ==
  /\ AtOptimize /\ L.i = 1
  /\ l_obs.left[1] # L.control_ini
  /\ l_obs.start.physics = Solved

----------------------------------------------------------------------------
(* L_curve : the order of the weights *)

\* the state in which physics.optimize is entered for the weight a by a sweep
\* that starts with a: nothing has acted between the entry of L_curve and
\* that call but the choice of the directory and of the objective
EntryWhenFirst(a) ==
  [alpha |-> a, physics |-> l_obs.start.physics,
   control |-> l_obs.start.control, I |-> a,
   dir |-> L.out_dir_i \o AlphaDir(a)]

\* C17 as stated: the state in which physics.optimize is entered for a weight
\* (physics state, control, objective, directory) does not depend on the place
\* of the weight in the sweep; every order has a sweep that starts with the
\* weight, so the entry state is the one of a sweep that starts with it.
C17_OrderIndependent ==
  \A k \in DOMAIN l_obs.entered :
    l_obs.entered[k] = EntryWhenFirst(l_obs.entered[k].alpha)

\* C17 amended: physics.optimize is entered for a weight with the control of
\* the snapshot, the objective J + alpha*R and the directory of that weight
\* wherever the weight stands in the sweep; the physics is as built for every
\* weight but the first and as the caller left it for the first; so the entry
\* state does not depend on the order when the physics is as built at the call.
C17_OrderIndependentButFirst ==
  /\ \A k \in DOMAIN l_obs.entered :
       l_obs.entered[k] =
         [EntryWhenFirst(l_obs.entered[k].alpha)
            EXCEPT !.physics = IF k = 1 THEN l_obs.start.physics ELSE Built]
  /\ l_obs.start.physics = Built => C17_OrderIndependent

\* a sweep of two weights has entered physics.optimize for both, the second
\* one after an optimization that moved the control
C17_Witness ==
  /\ Len(l_obs.entered) = 2
  /\ L.alphas = << 1000, 1 >>
  /\ l_obs.left[1] # l_obs.start.control
  /\ l_obs.start.physics = Built

----------------------------------------------------------------------------
(* transient_solve : the adaptive back-offs *)

\* the adaptive loop around momentum.solve has been left in this time step
MomentumLoopLeft ==
  TS.adaptive /\ TS.pc \in {"mass", "h_test", "h_solve", "energy", "advance"}

\* the number of calls after which a relaxation parameter that starts at p
\* and is divided by 1.43 at every call is below 0.2
RECURSIVE Retries(_)
Retries(p) == IF 5 * p < 1000 THEN 0 ELSE 1 + Retries((100 * p) \div 143)

\* C18: in adaptive mode, within a time step, every call of momentum.solve
\* after the first follows a failed one and is made with the relaxation
\* parameter of that one divided by 1.43; no call is made with a relaxation
\* parameter below 0.2; the loop is left only after a success or with the
\* parameter below 0.2, and after no more calls than the divisions that take
\* the entry value below 0.2.
C18_RelaxationBackoff ==
  TS.adaptive /\ TS.pc \notin {"none", "enter"} =>
    /\ \A k \in DOMAIN t_obs.u :
         /\ 5 * t_obs.u[k].par >= 1000
         /\ k = 1 => t_obs.u[k].par = t_obs.entry
         /\ k > 1 => /\ ~t_obs.u[k - 1].ok
                     /\ 143 * t_obs.u[k].par <= 100 * t_obs.u[k - 1].par
                     /\ 100 * t_obs.u[k - 1].par < 143 * (t_obs.u[k].par + 1)
    /\ Len(t_obs.u) <= Retries(t_obs.entry)
    /\ MomentumLoopLeft =>
         \/ 5 * tsim.par < 1000
         \/ t_obs.u # << >> /\ t_obs.u[Len(t_obs.u)].ok

\* momentum.solve has failed at 1.0, 0.699, 0.488, 0.341 and 0.238 and the
\* loop has stopped at the floor
C18_Witness ==
  /\ MomentumLoopLeft
  /\ Len(t_obs.u) = 5
  /\ ~t_obs.u[5].ok
  /\ "relaxation" \in t_obs.floors

\* C19 as stated: in adaptive mode, whenever mass.solve reports failure, at
\* any simulation time t, the time step dt is halved, the model's time step
\* follows it, H is put back to its value before the call, and the loop goes
\* on to retry.
C19_HalveOnFailure ==
  [][ (/\ TS.pc = "h_solve" /\ TS'.pc = "h_test"
       /\ ~t_obs'.h[Len(t_obs'.h)].ok)
      => /\ 2 * TS'.dt <= TS.dt /\ TS.dt < 2 * (TS'.dt + 1)
         /\ tsim'.time_step = TS'.dt
         /\ tsim'.H = tsim.H
         /\ ~TS'.solved_h ]_vars

\* C20: in adaptive mode, at the start of every time step the local dt and
\* the model's time step equal the time_step asked for and the relaxation
\* parameter equals its value at the call, whatever was backed off before.
C20_RestoredAtStepStart ==
  TS.adaptive /\ TS.pc = "momentum" =>
    /\ TS.dt = TS.time_step
    /\ tsim.time_step = TS.time_step
    /\ tsim.par = t_obs.entry

\* a time step starts after one in which both back-offs stopped at their floor
C20_Witness ==
  /\ TS.adaptive /\ TS.pc = "momentum"
  /\ t_obs.nsteps >= 2
  /\ t_obs.floors = {"relaxation", "dt"}

----------------------------------------------------------------------------
(* The classes of the arguments *)

\* the fields and the output directory as the script built them
Untouched ==
  /\ out_dir = "out/"
  /\ theta = Const(0) /\ alpha = Const(0) /\ Mb = Const(0)
  /\ Fb = Const(0) /\ Fb_min = Const(0) /\ Fb_max = Const(0)
  /\ beta = Const(0) /\ U3 = Const(0) /\ Tp = Const(0) /\ W = Const(0)
  /\ tsim.time_step = 0 /\ tsim.H = 0

\* no method of a solver object has been called
NoSolverCall ==
  /\ steps = << >>
  /\ \A k \in DOMAIN a_steps :
       a_steps[k] \notin {"momentum.linearize_viscosity",
                          "momentum.optimize_U_ob", "momentum.reset",
                          "thermo_solve"}
  /\ t_obs.u = << >> /\ t_obs.h = << >>

\* the running driver was given an object of the wrong class
WrongClass ==
  \/ script = "thermo_solve"
       /\ (objects.momentum # "Momentum" \/ objects.energy # "Energy")
  \/ script = "assimilate_U_ob" /\ objects.a_momentum # "Momentum"
  \/ script = "transient_solve" /\ TS.classes # "ok"

\* the driver has not run its first statements yet
NotEntered ==
  \/ script = "thermo_solve" /\ pc = "enter"
  \/ script = "assimilate_U_ob" /\ A.pc = "enter"
  \/ script = "transient_solve" /\ TS.pc = "enter"

\* C21: a driver that is given an object of the wrong class ends the process
\* with exit code 1 in its first statements, before any solver method is
\* called and before the output directory or any field is changed.
C21_ExitFirst ==
  WrongClass =>
    /\ Untouched
    /\ NoSolverCall
    /\ status = "SystemExit(1)" \/ (status = "ok" /\ NotEntered)

\* the same for thermo_solve and transient_solve alone
C21_ExitFirstChecked ==
  WrongClass /\ script # "assimilate_U_ob" => C21_ExitFirst

\* thermo_solve was given an Energy object as its momentum and has exited
C21_Witness ==
  /\ script = "thermo_solve" /\ objects.momentum = "Energy"
  /\ status = "SystemExit(1)"

----------------------------------------------------------------------------
(* init_ methods : a value of an unsupported type *)

\* the field the last init_ call was about
Target == IF i_obs.op = "init_beta" THEN beta ELSE Mb

Unsupported == i_obs.op # "none" /\ i_obs.var.type \notin Supported

\* C22: after an init_ method is called with a value of an
\* unsupported type the process has ended with exit code 1 and the target
\* field has its previous values.
C22_Fatal ==
  Unsupported => status = "SystemExit(1)" /\ Target = i_obs.before

\* what the code does: after an init_ method is called with a value of an
\* unsupported type the target field has its previous values and no exit
\* was asked for; the call has raised AttributeError when the value has no
\* name() method and has returned normally when it has one.
C22_KeptNotFatal ==
  Unsupported =>
    /\ Target = i_obs.before
    /\ status # "SystemExit(1)"
    /\ status = "AttributeError" <=> ~i_obs.var.named

\* init_beta was called on beta = 1 with a named object that stands for 0
C22_Witness ==
  /\ Unsupported /\ i_obs.op = "init_beta" /\ i_obs.var.named
  /\ i_obs.before = Const(1) /\ i_obs.var.val = Const(0)
  /\ status = "ok"

----------------------------------------------------------------------------
(* init_beta_SIA : the floor of beta *)

AfterSIA == i_obs.op = "init_beta_SIA"

\* C23 as stated: after init_beta_SIA beta is at least 1e-2 at every dof, in
\* two and in three dimensions, for every velocity, mask and geometry.
C23_FlooredEverywhere ==
  AfterSIA => \A d \in Dofs : beta[d] >= 100

\* C23 amended: after init_beta_SIA beta is at least 1e-2 at every dof in two
\* dimensions and at every dof of the grounded bed in three dimensions; at the
\* other dofs of a three-dimensional model beta is DOLFIN_EPS.
C23_FlooredOnBed ==
  AfterSIA =>
    /\ i_obs.dim = 2 => \A d \in Dofs : beta[d] >= 100
    /\ i_obs.dim = 3 =>
         \A d \in Dofs : IF d \in i_obs.bed THEN beta[d] >= 100
                                            ELSE beta[d] = DOLFIN_EPS

\* a flat surface over ice of thickness 10 that moves at 1000, in two
\* dimensions: the quotient is below the floor and beta is the floor
C23_Witness ==
  /\ AfterSIA /\ i_obs.dim = 2
  /\ geom.S = Const(10) /\ geom.B = Const(0) /\ geom.U_ob = Const(1000)
  /\ geom.U_mask = Const(1)
  /\ beta = Const(100)

\* in three dimensions with one dof on the bed
C23_WitnessBed ==
  /\ AfterSIA /\ i_obs.dim = 3 /\ i_obs.bed = {1}
  /\ beta[1] > 100 /\ beta[2] = DOLFIN_EPS

----------------------------------------------------------------------------
(* C24 *)

\* thermo_solve is past line 2785 and has not yet been left
BoundsReset == pc \in {"plot", "return"}

\* thermo_solve is between line 2654 and line 2785
InLoopFrame == pc \notin {"none", "enter", "plot", "return"}

\* C24: in Fb mode wop_kwargs['bounds'] holds the fields (Fb_min, Fb_max)
\* while thermo_solve runs and the caller's bounds again once it has reset
\* them, so that every thermo_solve call of assimilate_U_ob is entered with
\* the bounds the user supplied; in any other mode wop_kwargs['bounds'],
\* Fb_min and Fb_max stay as they were and optimize_water_flux is never called.
C24_BoundsRestored ==
  script \in {"thermo_solve", "assimilate_U_ob"} =>
    IF mode = "Fb"
      THEN /\ (BoundsReset \/ pc = "enter") => wop_bounds = given.bounds
           /\ InLoopFrame => wop_bounds.kind = "fields"
           /\ pc # "none" /\ pc # "enter" => bounds = given.bounds
      ELSE /\ wop_bounds = given.bounds
           /\ Fb_min = Const(0) /\ Fb_max = Const(0)
           /\ \A k \in 1..Len(steps) :
                steps[k] \notin {"energy.optimize_water_flux", "init_Fb_max"}

\* assimilate_U_ob enters the thermo_solve of its second iteration in Fb
\* mode, the loop of the first one having replaced the bounds by the fields
\* and put them back
C24_Witness ==
  /\ script = "assimilate_U_ob"
  /\ mode = "Fb"
  /\ pc = "enter"
  /\ A.pc = "tmc_wait"
  /\ Len(a_iters) >= 1
  /\ Len(iters) >= 1
  /\ wop_bounds = [kind |-> "values", lo |-> 0, hi |-> 5000]
  /\ Fb_max # Const(0)

\* thermo_solve has run an iteration in another mode and is about to return
C24_WitnessOtherMode ==
  /\ script = "thermo_solve"
  /\ mode = "zero_energy"
  /\ pc = "return"
  /\ Len(iters) >= 1
  /\ given.bounds.hi > 0


----------------------------------------------------------------------------
(* C25 *)

\* the number of calls named c made so far in this outer iteration
Calls(c) == Len(SelectSeq(a_steps, LAMBDA x : x = c))

C25_WitnessLinear ==
  /\ script = "assimilate_U_ob"
  /\ A.incomplete /\ linear_s /\ linear
  /\ A.pc = "tmc_wait" /\ pc = "momentum_solve"


----------------------------------------------------------------------------
(* C26 *)

Collected == script = "L_curve" /\ status = "ok" /\ L.pc = "done"

\* the trace that the optimization with the i-th weight of the sweep left
Written(i) == << l_obs.left[i] >>

\* C26: the arrays that L_curve gathers hold one trace for each weight of the
\* sweep, the one its optimization wrote in the directory of that weight, and
\* nothing of any other directory, in the order of increasing weight.
C26_TracesOfThisSweep ==
  Collected =>
    LET arr == l_obs.arrays
    IN  /\ Len(arr.alphas) = Len(L.alphas)
        /\ \A i \in 1..Len(L.alphas) :
             \E k \in 1..Len(arr.alphas) :
               /\ AlphaDir(arr.alphas[k]) = AlphaDir(L.alphas[i])
               /\ arr.J_logs[k] = Written(i)
        /\ \A j, k \in 1..Len(arr.alphas) :
             j < k => arr.alphas[j] < arr.alphas[k]

\* whatever is gathered is in the order of increasing weight, each trace and
\* each length at the place of the weight of its directory
C26_SortedTogether ==
  Collected =>
    LET arr == l_obs.arrays
    IN  /\ Len(arr.J_logs) = Len(arr.alphas) /\ Len(arr.ns) = Len(arr.alphas)
        /\ \A k \in 1..Len(arr.alphas) :
             /\ arr.J_logs[k] =
                  files[Trace(L.out_dir_i \o AlphaDir(arr.alphas[k]))]
             /\ arr.ns[k] = Len(arr.J_logs[k])
        /\ \A j, k \in 1..Len(arr.alphas) :
             j < k => arr.alphas[j] < arr.alphas[k]

\* a sweep of 1.00 and 0.01 in a base directory that holds the directory of
\* 10.0 of an earlier sweep: three traces are gathered
C26_Leftover ==
  /\ Collected
  /\ L.alphas = << 100, 1 >>
  /\ l_obs.arrays.alphas = << 1, 100, 1000 >>
  /\ l_obs.arrays.J_logs[3] = << MaxControl + 1 >>


----------------------------------------------------------------------------
(* C27 *)

\* C27: when a step of a thermo_solve iteration has failed, the output
\* directory is the base directory again, the one thermo_solve was entered
\* with.
C27_RestoredOnFailure ==
  (script = "thermo_solve" /\ status # "ok" /\ pc # "enter") =>
    out_dir = out_dir_i

\* energy.solve has raised in the second iteration
C27_Raised ==
  /\ script = "thermo_solve"
  /\ status = "RuntimeError"
  /\ pc = "energy_solve"
  /\ out_dir_i = "out/"
  /\ out_dir = "out/tmc/2/"


----------------------------------------------------------------------------
(* C28 *)

\* the driver the script called has returned normally
Returned == script = "done" /\ status = "ok"

\* C28: when assimilate_U_ob or L_curve has returned normally, the output
\* directory of the model is what it was when the driver was called.
C28_BaseRestored == Returned => out_dir = "out/"

\* assimilate_U_ob has returned after its second outer iteration
C28_AssimReturned ==
  /\ Returned
  /\ a_iters = << 1, 2 >>
  /\ out_dir = "out/2/"

\* L_curve has returned after a sweep of 0.01 and 10.0
C28_SweepReturned ==
  /\ Returned
  /\ l_obs.arrays.alphas = << 1, 1000 >>
  /\ out_dir = "out/alpha_1.0E+01/"


----------------------------------------------------------------------------
(* C29 *)

\* C29: in one sweep of L_curve two steps with different weights never run
\* in the same output directory, so that the trace and the lcurve.h5 of a
\* step are never written over by another step.
C29_DistinctDirs ==
  \A i, j \in 1..Len(l_obs.entered) :
    l_obs.entered[i].alpha # l_obs.entered[j].alpha =>
      l_obs.entered[i].dir # l_obs.entered[j].dir

\* the weights 1.00 and 1.04 of one sweep have both been optimized in
\* 'alpha_1.0E+00/', and the trace of the first is gone
C29_Overwritten ==
  /\ script = "L_curve"
  /\ L.alphas = << 100, 104 >>
  /\ L.pc = "done"
  /\ l_obs.left = << 1, 2 >>
  /\ files[Trace("out/alpha_1.0E+00/")] = << 2 >>
  /\ l_obs.arrays.alphas = << 100 >>


----------------------------------------------------------------------------
(* C30 *)

\* the time step is past its momentum solve
PastMomentum == TS.pc \in {"mass", "h_test", "h_solve", "energy", "advance"}

\* C30: in adaptive mode the mass and energy solves of a time step and the
\* advance of t come only after a momentum.solve of that step has reported
\* success; a step that went down to the floor of the relaxation parameter
\* without success is not carried on.
C30_OnlyAfterMomentumSolved ==
  (script = "transient_solve" /\ TS.adaptive /\ PastMomentum) => TS.solved_u

\* a time step whose momentum solves all failed, down to the floor, has gone
\* through its mass and energy solves and is about to advance t
C30_CarriedOn ==
  /\ script = "transient_solve"
  /\ status = "ok"
  /\ TS.adaptive
  /\ TS.pc = "advance"
  /\ ~TS.solved_u
  /\ "relaxation" \in t_obs.floors
  /\ t_obs.u # << >>
  /\ \A k \in 1..Len(t_obs.u) : ~t_obs.u[k].ok

=============================================================================
